---- MODULE Spec2Model ----
(***************************************************************************)
(* Nightmare Library: the sharded metadata router (hashBookId,             *)
(* DatabaseRouter) of functions/storage-github.ts and the cascading        *)
(* storage gateway (providerHealth, uploadFile) of                         *)
(* functions/storage-proxy.ts.                                             *)
(*                                                                         *)
(* TLC integers are 32 bits wide, while hashBookId works on JavaScript     *)
(* numbers that leave that range (2^31, hash * 32).  A JavaScript number   *)
(* with an integer value n is therefore kept as a record [q, r] with       *)
(* n = q * 65536 + r and 0 <= r < 65536.                                   *)
(***************************************************************************)
EXTENDS Integers, Sequences, FiniteSets, TLC

VARIABLES
    bookId,     \* hashBookId: the argument, a sequence of UTF-16 code units
    hashAcc,    \* hashBookId: the local `hash` when the loop has ended
    hashRet,    \* hashBookId: the returned shard index, NoRet before the call returns
    hashCalled, \* hashBookId: whether the call has been made
    router,     \* the DatabaseRouter last constructed: its `databases`, or NoRouter
    ctor,       \* the last construction attempt: its kind, its argument, whether it threw
    sent,       \* the lengths of the `databases` of the routers that sent a statement
    tables,     \* the rows each D1 database DB_1..DB_10 holds, in insertion order
    handles,    \* the handles queryForBook has returned
    contacted,  \* <<key, database>>: a handle of key called a method of database
    qa,         \* the last queryAll call: its arguments, what each shard did, its result
    now,        \* Date.now(), in milliseconds
    providerHealth, \* the module-level Map of storage-proxy.ts: type -> ProviderHealth
    streak,     \* per type: the observations made by calling updateProviderHealth on its own
    lastRead,   \* the last direct isProviderHealthy call: its argument and result
    up,         \* the uploadFile call: its position, locals, attempts and result
    single,     \* the downloadFile or deleteFile call: its adapter calls and result
    gh,         \* the uploadToGitHub call and the later read of its storage id
    sel,        \* the database each shard-selection function picked for bookId
    ep,         \* the upload-book or delete-book request: its position, locals, response
    objects,    \* the storage objects the providers hold: <<provider, storage id>>
    books,      \* the rows of the books tables: database, id, storage_provider, storage_id
    attempts,   \* KV_RATE_LIMIT: the LoginAttempt stored for the client IP, or NoAttempts
    sessions,   \* KV_SESSIONS: the instants at which a session was created
    login,      \* the last login request: its password, the status answered, the record it read
    calls,      \* the uploadFile calls in flight in one process, by caller
    trace       \* per provider: the global order of its observations, as a count

hashVars == <<bookId, hashAcc, hashRet, hashCalled>>

routerVars == <<router, ctor, sent, tables, handles, contacted, qa>>

gatewayVars == <<now, providerHealth, streak, lastRead, up>>

adapterVars == <<single, gh>>

apiVars == <<sel, ep, objects, books, attempts, sessions, login, calls, trace>>

vars == <<bookId, hashAcc, hashRet, hashCalled,
          router, ctor, sent, tables, handles, contacted, qa,
          now, providerHealth, streak, lastRead, up, single, gh,
          sel, ep, objects, books, attempts, sessions, login, calls, trace>>

-----------------------------------------------------------------------------
(* Bounds *)

MaxKeyLen == 5

\* the longest statement list given to batch
MaxBatch == 2

\* the shards that may fail in a queryAll of SpecRouter: the first MaxFailing
MaxFailing == 1

\* the failure observations a provider's errorCount is followed through
MaxErrorCount == 4

\* the tracker's time is followed through MaxWindows recovery windows
MaxWindows == 1

-----------------------------------------------------------------------------
(* JavaScript numbers with integer values *)

Limb == 2^16

HalfLimb == 2^15

Num(q, r) == [q |-> q, r |-> r]

NumZero == Num(0, 0)

\* a code unit 0..65535 as a number
NumOfCode(c) == Num(0, c)

NumAdd(a, b) ==
    LET r == a.r + b.r
    IN  Num(a.q + b.q + (r \div Limb), r % Limb)

NumSub(a, b) ==
    LET r == a.r - b.r
    IN  Num(a.q - b.q + (r \div Limb), r % Limb)

NumNeg(a) == NumSub(NumZero, a)

NumIsNeg(a) == a.q < 0

\* ToInt32 of ECMAScript: the value modulo 2^32, read as a signed 32-bit integer
ToInt32(a) ==
    LET m == a.q % Limb
    IN  Num(IF m >= HalfLimb THEN m - Limb ELSE m, a.r)

\* x << 5: ToInt32 of the operand, shifted left within 32 bits
ShiftLeft5(a) ==
    LET x == ToInt32(a)
        r == x.r * 32
    IN  ToInt32(Num(x.q * 32 + (r \div Limb), r % Limb))

\* x & x: ToInt32 of the operand
BitAndSelf(a) == ToInt32(a)

\* Math.abs on a number
MathAbs(a) == IF NumIsNeg(a) THEN NumNeg(a) ELSE a

\* the remainder of a non-negative number by 10 (65536 % 10 = 6)
NatRem10(a) == (((a.q % 10) * (Limb % 10)) + (a.r % 10)) % 10

\* x % 10 of ECMAScript: the result takes the sign of the dividend
JsRem10(a) == IF NumIsNeg(a) THEN 0 - NatRem10(NumNeg(a)) ELSE NatRem10(a)

-----------------------------------------------------------------------------
(* hashBookId, storage-github.ts:152-160 *)

NumShards == 10

NoRet == 0 - 1

\* one iteration of the loop body: hash = ((hash << 5) - hash) + char; hash = hash & hash
hashStep(hash, char) ==
    BitAndSelf(NumAdd(NumSub(ShiftLeft5(hash), hash), NumOfCode(char)))

RECURSIVE hashLoop(_, _)
\* the local `hash` after the first i code units of id
hashLoop(id, i) ==
    IF i = 0 THEN NumZero ELSE hashStep(hashLoop(id, i - 1), id[i])

\* hashBookId without Math.abs
hashBookId_NoAbs(id) == JsRem10(hashLoop(id, Len(id)))

hashBookId(id) == JsRem10(MathAbs(hashLoop(id, Len(id))))

-----------------------------------------------------------------------------
(* The getDB helpers of the catch-all routers, part_009:10-13 and 65-69,
   functions/api/[[path]].ts:74-78 *)

\* the callback of part_009:11, (a, b) => (a << 5) - a + b.charCodeAt(0): the
\* accumulator is not cut to 32 bits
getDBReduceStep(a, char) ==
    NumAdd(NumSub(ShiftLeft5(a), a), NumOfCode(char))

RECURSIVE getDBReduce(_, _)
\* id.split('').reduce(callback, 0) over the first i code units
getDBReduce(id, i) ==
    IF i = 0 THEN NumZero ELSE getDBReduceStep(getDBReduce(id, i - 1), id[i])

\* getDB of part_009:10-13: the number of the binding DB_<shard> it returns
getDBShift(id) == JsRem10(MathAbs(getDBReduce(id, Len(id)))) + 1

RECURSIVE SumOfCodes(_, _)
\* id.split('').reduce((acc, char) => acc + char.charCodeAt(0), 0)
SumOfCodes(id, i) ==
    IF i = 0 THEN 0 ELSE SumOfCodes(id, i - 1) + id[i]

\* getDB of functions/api/[[path]].ts:74-78 and part_009:65-69: the number
\* of the binding DB_<shard> it returns (the sum is never negative)
getDB(id) == (SumOfCodes(id, Len(id)) % 10) + 1

\* the binding DatabaseRouter.queryForBook(id) uses on a router made by
\* createDatabaseRouter: databases[hashBookId(id)] is env.DB_<hashBookId(id) + 1>
RouterBinding(id) == hashBookId(id) + 1

-----------------------------------------------------------------------------
(* The keys hashBookId is applied to *)

\* code units: small ones, the largest one, and the digits of a key whose
\* accumulator ends at -2^31 (2325, 9, 30, 12, 2)
CodeUnits == {2, 9, 12, 30, 2325, 65535}

RECURSIVE SeqsUpTo(_, _)
SeqsUpTo(S, n) ==
    IF n = 0 THEN {<<>>}
    ELSE LET shorter == SeqsUpTo(S, n - 1)
         IN  shorter \cup {Append(s, c) : s \in {t \in shorter : Len(t) = n - 1}, c \in S}

Keys == SeqsUpTo(CodeUnits, MaxKeyLen)

MinInt32 == Num(0 - HalfLimb, 0)

MinInt32Key == <<2325, 9, 30, 12, 2>>

-----------------------------------------------------------------------------
(* The D1 databases and the keys the router is used with *)

\* the bindings DB_1 .. DB_10
DBs == 1 .. NumShards

\* the shard indices
Shards == 0 .. (NumShards - 1)

\* the book ids of the router's callers: the empty id (shard 0), "a" and "k"
\* (both on shard 7), the id of code unit 3 (shard 3) and the id whose
\* accumulator is -2^31 (shard 8)
RouterKeys == <<  <<>>, <<97>>, <<107>>, <<3>>, MinInt32Key >>

\* the book ids of SpecRouter
RouterKeyIds == 1 .. 3

KeyIds == 1 .. Len(RouterKeys)

\* a statement of a caller: it inserts, deletes or reads the row of a book
Stmts == [op : {"insert", "delete", "select"}, row : KeyIds]

Remove(seq, x) == SelectSeq(seq, LAMBDA y : y # x)

InSeq(seq, x) == \E i \in 1 .. Len(seq) : seq[i] = x

\* the rows of a table after a statement that did not fail
ApplyStmt(table, st) ==
    CASE st.op = "insert" -> IF InSeq(table, st.row) THEN table ELSE Append(table, st.row)
      [] st.op = "delete" -> Remove(table, st.row)
      [] OTHER -> table

RECURSIVE ApplyStmts(_, _)
ApplyStmts(table, sts) ==
    IF sts = <<>> THEN table
    ELSE ApplyStmts(ApplyStmt(table, Head(sts)), Tail(sts))

-----------------------------------------------------------------------------
(* DatabaseRouter, storage-github.ts:173-279 *)

\* no router has been constructed (no router has an empty list)
NoRouter == <<>>

OutOfRange == 0

\* the lists the constructor is called with directly: DB_1, DB_2, ... of
\* the lengths 0, 9, 10 and 11
DbLists == {[i \in 1 .. n |-> ((i - 1) % NumShards) + 1] :
                n \in {0, NumShards - 1, NumShards, NumShards + 1}}

\* the environments createDatabaseRouter is called with: every binding
\* present, one binding absent (the first, a middle one, the last), two
\* absent, or none present
Envs == {DBs, DBs \ {1}, DBs \ {5}, DBs \ {10}, DBs \ {4, 9}, {}}

\* a constructor that only rejects short lists
ConstructorThrows_TooFew(databases) == Len(databases) < 10

\* constructor: throws unless the list has 10 entries
ConstructorThrows(databases) == Len(databases) # 10

\* createDatabaseRouter: the first i in 1..10 whose binding is absent, 0 if none is
FirstMissing(env) ==
    IF \E i \in 1 .. 10 : i \notin env
    THEN CHOOSE i \in 1 .. 10 : i \notin env /\ \A j \in 1 .. (i - 1) : j \in env
    ELSE 0

\* createDatabaseRouter: the list pushed before binding i is looked at
EnvDatabases(env, i) == [j \in 1 .. (i - 1) |-> j]

\* getDb: the database of an index, OutOfRange when the index check throws
getDb(databases, index) ==
    IF index < 0 \/ index >= 10 THEN OutOfRange ELSE databases[index + 1]

NoAttempt == [kind |-> "none", arg |-> <<>>, threw |-> FALSE]

\* new DatabaseRouter(databases)
NewDatabaseRouter(databases) ==
    /\ qa.pc # "loop"
    /\ ctor' = [kind |-> "constructor", arg |-> databases,
                threw |-> ConstructorThrows(databases)]
    /\ router' = IF ConstructorThrows(databases) THEN router ELSE databases
    /\ UNCHANGED <<sent, tables, handles, contacted, qa>>
    /\ UNCHANGED hashVars
    /\ UNCHANGED gatewayVars
    /\ UNCHANGED adapterVars
    /\ UNCHANGED apiVars

\* createDatabaseRouter(env)
CreateDatabaseRouter(env) ==
    /\ qa.pc # "loop"
    /\ IF FirstMissing(env) # 0
       THEN /\ ctor' = [kind |-> "create", arg |-> env, threw |-> TRUE]
            /\ UNCHANGED router
       ELSE LET databases == EnvDatabases(env, 11)
            IN  /\ ctor' = [kind |-> "create", arg |-> env,
                            threw |-> ConstructorThrows(databases)]
                /\ router' = IF ConstructorThrows(databases) THEN router ELSE databases
    /\ UNCHANGED <<sent, tables, handles, contacted, qa>>
    /\ UNCHANGED hashVars
    /\ UNCHANGED gatewayVars
    /\ UNCHANGED adapterVars
    /\ UNCHANGED apiVars

\* queryForBook(bookId): the handle closes over the router and dbIndex
QueryForBook(k) ==
    /\ router # NoRouter
    /\ handles' = handles \cup {[key |-> k, dbIndex |-> hashBookId(RouterKeys[k]),
                                 databases |-> router]}
    /\ UNCHANGED <<router, ctor, sent, tables, contacted, qa>>
    /\ UNCHANGED hashVars
    /\ UNCHANGED gatewayVars
    /\ UNCHANGED adapterVars
    /\ UNCHANGED apiVars

\* a handle that falls back to the next shard when its own shard fails
CallDatabase_Fallback(h, sts, ok) ==
    LET db == getDb(h.databases, h.dbIndex)
        next == getDb(h.databases, (h.dbIndex + 1) % 10)
    IN  /\ qa.pc # "loop"
        /\ db # OutOfRange
        /\ contacted' = contacted \cup (IF ok THEN {<<h.key, db>>}
                                        ELSE {<<h.key, db>>, <<h.key, next>>})
        /\ sent' = sent \cup {Len(h.databases)}
        /\ tables' = IF ok THEN [tables EXCEPT ![db] = ApplyStmts(@, sts)]
                      ELSE [tables EXCEPT ![next] = ApplyStmts(@, sts)]
        /\ UNCHANGED <<router, ctor, handles, qa>>
        /\ UNCHANGED hashVars
        /\ UNCHANGED gatewayVars
        /\ UNCHANGED adapterVars
        /\ UNCHANGED apiVars

\* a method of the database a handle resolves to is called with statements;
\* the database runs them, or fails (ok = FALSE) and changes nothing
CallDatabase(h, sts, ok) ==
    LET db == getDb(h.databases, h.dbIndex)
    IN  /\ qa.pc # "loop"
        /\ db # OutOfRange
        /\ contacted' = contacted \cup {<<h.key, db>>}
        /\ sent' = sent \cup {Len(h.databases)}
        /\ tables' = IF ok THEN [tables EXCEPT ![db] = ApplyStmts(@, sts)] ELSE tables
        /\ UNCHANGED <<router, ctor, handles, qa>>
        /\ UNCHANGED hashVars
        /\ UNCHANGED gatewayVars
        /\ UNCHANGED adapterVars
        /\ UNCHANGED apiVars

\* handle.prepare(sql), followed by the statement's run/first/all
HandlePrepare(h, st, ok) == CallDatabase(h, <<st>>, ok)

\* handle.execute(sql)
HandleExecute(h, st, ok) == CallDatabase(h, <<st>>, ok)

\* handle.batch(statements)
HandleBatch(h, sts, ok) == CallDatabase(h, sts, ok)

\* the statements of a caller about the book of its handle
StmtsOf(k) == {st \in Stmts : st.row = k}

\* the statement lists given to batch: writes
BatchesOf(k) ==
    UNION {[1 .. n -> {st \in StmtsOf(k) : st.op # "select"}] : n \in 1 .. MaxBatch}

\* the mapFn of a caller
MapFn(row) == row + 100

MapRows(rows, useMap) ==
    IF useMap THEN [j \in 1 .. Len(rows) |-> MapFn(rows[j])] ELSE rows

\* what a shard does when queried: it throws, answers success = false, or
\* answers its rows
Outcomes == {"throws", "unsuccessful", "rows"}

NoQuery == [pc |-> "idle", useMap |-> FALSE, databases |-> NoRouter, i |-> 0,
            failed |-> {}, returned |-> [i \in Shards |-> <<>>], results |-> <<>>]

\* queryAll(sql, mapFn) is called: results = []
QueryAllStart(useMap) ==
    /\ router # NoRouter
    /\ qa.pc # "loop"
    /\ qa' = [NoQuery EXCEPT !.pc = "loop", !.useMap = useMap, !.databases = router]
    /\ UNCHANGED <<router, ctor, sent, tables, handles, contacted>>
    /\ UNCHANGED hashVars
    /\ UNCHANGED gatewayVars
    /\ UNCHANGED adapterVars
    /\ UNCHANGED apiVars

\* the rows of a shard put in front of the rows of the earlier shards
queryAllIteration_Prepend(q, tbls, outcome) ==
    LET db == getDb(q.databases, q.i)
        ok == db # OutOfRange /\ outcome = "rows"
    IN  [q EXCEPT
            !.results = IF ok THEN MapRows(tbls[db], q.useMap) \o @ ELSE @,
            !.returned[q.i] = IF ok THEN tbls[db] ELSE <<>>,
            !.failed = IF ok THEN @ ELSE @ \cup {q.i},
            !.i = @ + 1,
            !.pc = IF q.i + 1 < 10 THEN "loop" ELSE "done"]

\* the loop body without its try/catch: a throwing shard ends the call
queryAllIteration_NoCatch(q, tbls, outcome) ==
    LET db == getDb(q.databases, q.i)
        ok == db # OutOfRange /\ outcome = "rows"
    IN  [q EXCEPT
            !.results = IF ok THEN @ \o MapRows(tbls[db], q.useMap) ELSE @,
            !.returned[q.i] = IF ok THEN tbls[db] ELSE <<>>,
            !.failed = IF ok THEN @ ELSE @ \cup {q.i},
            !.i = @ + 1,
            !.pc = IF outcome = "throws" THEN "threw"
                   ELSE IF q.i + 1 < 10 THEN "loop" ELSE "done"]

\* one iteration of the loop of queryAll, shard q.i answering with outcome:
\* rows are mapped and pushed when the shard answers success with results,
\* a throw is caught and logged; after shard 9 the call returns `results`
queryAllIteration(q, tbls, outcome) ==
    LET db == getDb(q.databases, q.i)
        ok == db # OutOfRange /\ outcome = "rows"
    IN  [q EXCEPT
            !.results = IF ok THEN @ \o MapRows(tbls[db], q.useMap) ELSE @,
            !.returned[q.i] = IF ok THEN tbls[db] ELSE <<>>,
            !.failed = IF ok THEN @ ELSE @ \cup {q.i},
            !.i = @ + 1,
            !.pc = IF q.i + 1 < 10 THEN "loop" ELSE "done"]

\* the call resumes with the answer of shard qa.i; only the first maxFailing
\* shards may fail
QueryAllStep(outcome, maxFailing) ==
    /\ qa.pc = "loop"
    /\ outcome # "rows" => qa.i < maxFailing
    /\ qa' = queryAllIteration(qa, tables, outcome)
    /\ sent' = sent \cup {Len(qa.databases)}
    /\ UNCHANGED <<router, ctor, tables, handles, contacted>>
    /\ UNCHANGED hashVars
    /\ UNCHANGED gatewayVars
    /\ UNCHANGED adapterVars
    /\ UNCHANGED apiVars

RouterIdle ==
    /\ router = NoRouter
    /\ ctor = NoAttempt
    /\ sent = {}
    /\ tables = [d \in DBs |-> <<>>]
    /\ handles = {}
    /\ contacted = {}
    /\ qa = NoQuery

-----------------------------------------------------------------------------
(* Provider health, storage-proxy.ts:65-103 *)

\* three of the ten StorageType values
Providers == {"gdrive", "dropbox", "github"}

\* 5 * 60 * 1000 of isProviderHealthy
RecoveryWindow == 5 * 60 * 1000

\* the instants Date.now() takes: the end of each recovery window and one
\* millisecond past it
Instants == {w * RecoveryWindow + m : w \in 0 .. MaxWindows, m \in {0, 1}}

\* providerHealth.set(type, health)
MapSet(h, type, health) ==
    [p \in DOMAIN h \cup {type} |-> IF p = type THEN health ELSE h[p]]

\* an updateProviderHealth whose threshold is off by one
updateProviderHealth_Late(h, type, success, t) ==
    LET health == IF type \in DOMAIN h THEN h[type]
                  ELSE [type |-> type, healthy |-> TRUE, lastCheck |-> 0, errorCount |-> 0]
        stamped == [health EXCEPT !.lastCheck = t]
        counted == [stamped EXCEPT !.errorCount = @ + 1]
    IN  MapSet(h, type,
               IF success THEN [stamped EXCEPT !.healthy = TRUE, !.errorCount = 0]
               ELSE IF counted.errorCount > 3 THEN [counted EXCEPT !.healthy = FALSE]
               ELSE counted)

\* an updateProviderHealth whose success keeps the failure count
updateProviderHealth_KeepCount(h, type, success, t) ==
    LET health == IF type \in DOMAIN h THEN h[type]
                  ELSE [type |-> type, healthy |-> TRUE, lastCheck |-> 0, errorCount |-> 0]
        stamped == [health EXCEPT !.lastCheck = t]
        counted == [stamped EXCEPT !.errorCount = @ + 1]
    IN  MapSet(h, type,
               IF success THEN [stamped EXCEPT !.healthy = TRUE]
               ELSE IF counted.errorCount >= 3 THEN [counted EXCEPT !.healthy = FALSE]
               ELSE counted)

\* updateProviderHealth(type, success) at time t: the map afterwards
updateProviderHealth(h, type, success, t) ==
    LET health == IF type \in DOMAIN h THEN h[type]
                  ELSE [type |-> type, healthy |-> TRUE, lastCheck |-> 0, errorCount |-> 0]
        stamped == [health EXCEPT !.lastCheck = t]
        counted == [stamped EXCEPT !.errorCount = @ + 1]
    IN  MapSet(h, type,
               IF success THEN [stamped EXCEPT !.healthy = TRUE, !.errorCount = 0]
               ELSE IF counted.errorCount >= 3 THEN [counted EXCEPT !.healthy = FALSE]
               ELSE counted)

\* an isProviderHealthy whose window test is >= instead of >
isProviderHealthy_AtWindow(h, type, t) ==
    IF type \notin DOMAIN h THEN [result |-> TRUE, map |-> h]
    ELSE IF t - h[type].lastCheck >= 5 * 60 * 1000
    THEN [result |-> TRUE,
          map |-> [h EXCEPT ![type].healthy = TRUE, ![type].errorCount = 0]]
    ELSE [result |-> h[type].healthy, map |-> h]

\* an isProviderHealthy whose reset leaves the failure count
isProviderHealthy_KeepCount(h, type, t) ==
    IF type \notin DOMAIN h THEN [result |-> TRUE, map |-> h]
    ELSE IF t - h[type].lastCheck > 5 * 60 * 1000
    THEN [result |-> TRUE, map |-> [h EXCEPT ![type].healthy = TRUE]]
    ELSE [result |-> h[type].healthy, map |-> h]

\* isProviderHealthy(type) at time t: the value returned and the map afterwards
isProviderHealthy(h, type, t) ==
    IF type \notin DOMAIN h THEN [result |-> TRUE, map |-> h]
    ELSE IF t - h[type].lastCheck > 5 * 60 * 1000
    THEN [result |-> TRUE,
          map |-> [h EXCEPT ![type].healthy = TRUE, ![type].errorCount = 0]]
    ELSE [result |-> h[type].healthy, map |-> h]

\* the map after isProviderHealthy has been called on each of the types
\* (the calls are independent of one another at a fixed time)
ReadEach(h, types, t) ==
    [p \in DOMAIN h |-> IF p \in types THEN isProviderHealthy(h, p, t).map[p] ELSE h[p]]

NoStreak == [n |-> 0, first |-> 0, cleared |-> 0, last |-> 0, seen |-> FALSE]

\* the observations of a type as its callers made them: n failure
\* observations since the last success observation, the first of them at
\* time `first`; the last success observation ended a run of `cleared`
\* failures; the last observation was at time `last`
StreakAfter(st, success, t) ==
    IF success THEN [n |-> 0, first |-> 0, cleared |-> st.n, last |-> t, seen |-> TRUE]
    ELSE IF st.n = 0 THEN [n |-> 1, first |-> t, cleared |-> 0, last |-> t, seen |-> TRUE]
    ELSE [st EXCEPT !.n = @ + 1, !.last = t]

\* the failure count of a type in a health map, 0 when it has no record
CountIn(h, type) == IF type \in DOMAIN h THEN h[type].errorCount ELSE 0

\* the failure count stays within the bound
MayFail(h, type) == type \in DOMAIN h => h[type].errorCount < MaxErrorCount

NoRead == [type |-> "none", result |-> TRUE]

NoUpload == [pc |-> "idle", sorted |-> <<>>, idx |-> 0, invoked |-> <<>>,
             outcomes |-> <<>>, obs |-> <<>>, attemptAt |-> <<>>,
             before |-> <<>>, skipped |-> <<>>, calledAt |-> 0,
             result |-> [success |-> FALSE, error |-> "none"]]

NoSingle == [op |-> "none", pc |-> "idle", type |-> "none", invoked |-> <<>>,
             outcome |-> "none", result |-> [success |-> FALSE]]

\* no write has been made
NoWrite == [repo |-> <<>>, basis |-> "none", check |-> 0, size |-> 0]

NoReadBack == [op |-> "none", repo |-> <<>>, fileId |-> <<>>]

NoGitHub == [pc |-> "idle", fileId |-> <<>>, configRepo |-> <<>>, repo |-> <<>>,
             status |-> 0, i |-> 0, probed |-> <<>>, lastWrite |-> NoWrite,
             accepted |-> <<>>, result |-> [success |-> FALSE, storageId |-> <<>>],
             read |-> NoReadBack]

\* no shard-selection function has been called
NoSel == [called |-> FALSE, router |-> 0, shift |-> 0, sum |-> 0]

\* no request is being handled by the books endpoints; `db` is the D1
\* database bound as env.DB (0: no such binding), `imported` says which of
\* the two uploadToGitHub of storage-proxy.ts the build calls, `n` counts the
\* requests
NoRequest == [op |-> "none", pc |-> "idle", key |-> 0, env |-> {},
              db |-> 0, imported |-> FALSE, n |-> 0, dbOk |-> FALSE,
              uploadResult |-> [success |-> FALSE],
              storageType |-> "none",
              book |-> [found |-> FALSE],
              status |-> 0, message |-> "none"]

\* KV_RATE_LIMIT.get(rateLimitKey) returns null
NoAttempts == [stored |-> FALSE, count |-> 0, firstAttempt |-> 0,
               locked |-> FALSE, lockedUntil |-> 0]

\* no login request has been answered; `failed` counts the requests of the
\* client answered 401 since its last successful login (before and after the
\* request), `fifthAt` is the instant of the fifth of them
NoLogin == [status |-> 0, password |-> "none", at |-> 0, session |-> FALSE,
            failedBefore |-> 0, failed |-> 0, fifthAt |-> 0]

\* the callers of uploadFile that run in one process
Callers == {1, 2}

\* a caller has not called uploadFile; `seen` is the failure count of the
\* candidate in flight at the time its adapter was invoked, `overlapped` says
\* that an attempt of the call failed while the other caller awaited the
\* adapter of the same type
NoCall == [pc |-> "idle", sorted |-> <<>>, idx |-> 0, seen |-> 0,
           overlapped |-> FALSE]

ApiIdle ==
    /\ sel = NoSel
    /\ ep = NoRequest
    /\ objects = {}
    /\ books = {}
    /\ attempts = NoAttempts
    /\ sessions = {}
    /\ login = NoLogin
    /\ calls = [c \in Callers |-> NoCall]
    /\ trace = <<>>

GatewayIdle ==
    /\ now = 0
    /\ providerHealth = <<>>
    /\ streak = [p \in Providers |-> NoStreak]
    /\ lastRead = NoRead
    /\ up = NoUpload
    /\ single = NoSingle
    /\ gh = NoGitHub
    /\ ApiIdle

\* time passes
Tick(t) ==
    /\ t > now
    /\ now' = t
    /\ UNCHANGED <<providerHealth, streak, lastRead, up>>
    /\ UNCHANGED hashVars
    /\ UNCHANGED routerVars
    /\ UNCHANGED adapterVars
    /\ UNCHANGED apiVars

\* updateProviderHealth(type, success), called on its own
UpdateProviderHealthCall(type, success) ==
    /\ ~success => MayFail(providerHealth, type)
    /\ providerHealth' = updateProviderHealth(providerHealth, type, success, now)
    /\ streak' = [streak EXCEPT ![type] = StreakAfter(@, success, now)]
    /\ UNCHANGED <<now, lastRead, up>>
    /\ UNCHANGED hashVars
    /\ UNCHANGED routerVars
    /\ UNCHANGED adapterVars
    /\ UNCHANGED apiVars

\* isProviderHealthy(type), called on its own
IsProviderHealthyCall(type) ==
    /\ lastRead' = [type |-> type, result |-> isProviderHealthy(providerHealth, type, now).result]
    /\ providerHealth' = isProviderHealthy(providerHealth, type, now).map
    /\ UNCHANGED <<now, streak, up>>
    /\ UNCHANGED hashVars
    /\ UNCHANGED routerVars
    /\ UNCHANGED adapterVars
    /\ UNCHANGED apiVars

-----------------------------------------------------------------------------
(* uploadFile, storage-proxy.ts:108-183 *)

\* a StorageConfig: its type and, when set, its priority
Config(type, priority) == [type |-> type, priority |-> priority]

ConfigNoPriority(type) == [type |-> type]

\* the candidate lists uploadFile is called with: the order of
\* getStorageConfigs, equal priorities, mixed ones, an unsorted list, lists
\* of one candidate (also without priority), the empty list
ConfigLists == {
    << Config("gdrive", 1), Config("dropbox", 2), Config("github", 10) >>,
    << Config("gdrive", 1), Config("dropbox", 1), Config("github", 1) >>,
    << Config("github", 2), Config("dropbox", 1), Config("gdrive", 1) >>,
    << Config("dropbox", 2), Config("github", 10) >>,
    << ConfigNoPriority("github"), ConfigNoPriority("gdrive") >>,
    << ConfigNoPriority("gdrive") >>,
    << Config("dropbox", 2) >>,
    << Config("github", 10) >>,
    << >> }

\* the StorageType values, in the order getStorageConfigs looks at them
StorageOrder == <<"gdrive", "dropbox", "onedrive", "pcloud", "box",
                  "yandex", "koofr", "b2", "mega", "github">>

\* the priority getStorageConfigs gives the config of a type
DefaultPriority(type) ==
    CHOOSE i \in 1 .. Len(StorageOrder) : StorageOrder[i] = type

\* getStorageConfigs(env), env given as the types whose variables are set:
\* their configs are pushed in the order of StorageOrder
getStorageConfigs(env) ==
    LET F[i \in 0 .. Len(StorageOrder)] ==
            IF i = 0 THEN <<>>
            ELSE IF StorageOrder[i] \in env
                 THEN Append(F[i - 1], Config(StorageOrder[i], i))
                 ELSE F[i - 1]
    IN  F[Len(StorageOrder)]

\* (a.priority || 0)
PriorityOf(c) == IF "priority" \in DOMAIN c THEN c.priority ELSE 0

\* the types whose health the comparator of the sort reads: a candidate is
\* compared on health only with a candidate of the same priority
TiedTypes(configs) ==
    {configs[i].type : i \in {j \in 1 .. Len(configs) :
        \E m \in 1 .. Len(configs) : m # j /\ PriorityOf(configs[m]) = PriorityOf(configs[j])}}

\* a comparator that subtracts the priorities the other way round
Compare_Descending(a, b, h, t) ==
    LET priorityDiff == PriorityOf(b) - PriorityOf(a)
        aHealthy == IF isProviderHealthy(h, a.type, t).result THEN 0 ELSE 1
        bHealthy == IF isProviderHealthy(h, b.type, t).result THEN 0 ELSE 1
    IN  IF priorityDiff # 0 THEN priorityDiff ELSE aHealthy - bHealthy

\* the comparator: the priority difference, then healthy before unhealthy
Compare(a, b, h, t) ==
    LET priorityDiff == PriorityOf(a) - PriorityOf(b)
        aHealthy == IF isProviderHealthy(h, a.type, t).result THEN 0 ELSE 1
        bHealthy == IF isProviderHealthy(h, b.type, t).result THEN 0 ELSE 1
    IN  IF priorityDiff # 0 THEN priorityDiff ELSE aHealthy - bHealthy

\* c inserted behind the entries that do not compare greater than it
InsertSorted(sorted, c, h, t) ==
    LET greater == {i \in 1 .. Len(sorted) : Compare(sorted[i], c, h, t) > 0}
        at == IF greater = {} THEN Len(sorted) + 1
              ELSE CHOOSE i \in greater : \A j \in greater : i <= j
    IN  SubSeq(sorted, 1, at - 1) \o <<c>> \o SubSeq(sorted, at, Len(sorted))

RECURSIVE SortConfigs(_, _, _, _)
\* [...configs].sort(comparator) of the first n entries: Array.prototype.sort
\* is stable
SortConfigs(configs, n, h, t) ==
    IF n = 0 THEN <<>>
    ELSE InsertSorted(SortConfigs(configs, n - 1, h, t), configs[n], h, t)

\* an indexOf compared with sortedConfigs.length instead of length - 1
IndexOf_ZeroBased(sorted, config) ==
    (CHOOSE i \in 1 .. Len(sorted) :
        sorted[i] = config /\ \A j \in 1 .. (i - 1) : sorted[j] # config) - 1

\* sortedConfigs.indexOf(config), counted from 1
IndexOf(sorted, config) ==
    CHOOSE i \in 1 .. Len(sorted) :
        sorted[i] = config /\ \A j \in 1 .. (i - 1) : sorted[j] # config

\* a loop that skips every unhealthy candidate, the last one too
Skips_AlsoLast(sorted, i, h, t) ==
    ~isProviderHealthy(h, sorted[i].type, t).result

\* the loop skips a candidate: it is unhealthy and not the last one
Skips(sorted, i, h, t) ==
    /\ ~isProviderHealthy(h, sorted[i].type, t).result
    /\ IndexOf(sorted, sorted[i]) < Len(sorted)

\* a loop that tries a failed candidate again
NextAttempt_Retry(sorted, i, h, t) ==
    IF i > 1 THEN i - 1 ELSE i

\* a loop that gives up after the first failed attempt
NextAttempt_GiveUp(sorted, i, h, t) ==
    IF i > 1 THEN Len(sorted) + 1
    ELSE IF i <= Len(sorted) /\ Len(sorted) > 1
            /\ ~isProviderHealthy(h, sorted[i].type, t).result
    THEN 2
    ELSE i

RECURSIVE NextAttempt(_, _, _, _)
\* the first candidate from position i on that the loop does not skip,
\* Len(sorted) + 1 when the loop ends
NextAttempt(sorted, i, h, t) ==
    IF i > Len(sorted) THEN i
    ELSE IF Skips(sorted, i, h, t) THEN NextAttempt(sorted, i + 1, h, t)
    ELSE i

\* the types the loop reads the health of on its way from position i to k
TypesRead(sorted, i, k) ==
    {sorted[j].type : j \in {m \in i .. k : m <= Len(sorted)}}

AllFailed == [success |-> FALSE, error |-> "All storage providers failed"]

Succeeded(type) == [success |-> TRUE, provider |-> type]

\* what the adapter of a candidate does: it returns a successful result, it
\* returns success = false, or it throws
AdapterOutcomes == {"success", "failure", "throws"}

\* a success branch that does not return
ReturnsResult_Never(outcome) == FALSE

\* if (result.success) { ...; return result }
ReturnsResult(outcome) == outcome = "success"

\* a catch block that does not record the failure
Observation_SilentCatch(outcome) ==
    CASE outcome = "success" -> <<TRUE>>
      [] outcome = "failure" -> <<FALSE>>
      [] OTHER -> <<>>

\* the updateProviderHealth calls after an attempt: (type, true) after a
\* successful result, (type, false) after a failure result and in the catch
Observation(outcome) ==
    CASE outcome = "success" -> <<TRUE>>
      [] outcome = "failure" -> <<FALSE>>
      [] OTHER -> <<FALSE>>

RECURSIVE Observe(_, _, _, _)
\* the map after the updateProviderHealth calls of one attempt
Observe(h, type, observations, t) ==
    IF observations = <<>> THEN h
    ELSE Observe(updateProviderHealth(h, type, Head(observations), t), type,
                 Tail(observations), t)

\* the candidates the loop passes over with `continue` on its way from
\* position i to k: their position and what isProviderHealthy returned
Passed(sorted, i, k, h, t) ==
    [m \in 1 .. (k - i) |->
        [pos |-> i + m - 1, type |-> sorted[i + m - 1].type,
         healthy |-> isProviderHealthy(h, sorted[i + m - 1].type, t).result]]

\* the loop goes on from position i with the map h: it runs to the next
\* adapter call or to the end of the list
Continue(u, i, h) ==
    LET k == NextAttempt(u.sorted, i, h, now)
        read == ReadEach(h, TypesRead(u.sorted, i, k), now)
        v == [u EXCEPT !.skipped = @ \o Passed(u.sorted, i, k, h, now)]
    IN  /\ providerHealth' = read
        /\ up' = IF k > Len(u.sorted)
                 THEN [v EXCEPT !.pc = "done", !.idx = k, !.result = AllFailed]
                 ELSE [v EXCEPT !.pc = "calling", !.idx = k,
                                !.invoked = Append(@, u.sorted[k].type),
                                !.attemptAt = Append(@, now)]

\* uploadFile(configs, ...) is called: the candidates are sorted and the loop
\* runs to its first adapter call
UploadFileRuns(configs) ==
    /\ up.pc # "calling"
    /\ LET read == ReadEach(providerHealth, TiedTypes(configs), now)
           sorted == SortConfigs(configs, Len(configs), read, now)
       IN  Continue([NoUpload EXCEPT !.sorted = sorted, !.before = providerHealth,
                                      !.calledAt = now],
                    1, read)
    /\ UNCHANGED <<now, streak, lastRead>>

\* uploadFile called by itself
UploadFile(configs) ==
    /\ UploadFileRuns(configs)
    /\ UNCHANGED hashVars
    /\ UNCHANGED routerVars
    /\ UNCHANGED adapterVars
    /\ UNCHANGED apiVars

\* the adapter call in flight ends: its outcome is recorded in the health
\* map, and the call returns the result or goes on with the next candidate
AdapterEnds(outcome) ==
    /\ up.pc = "calling"
    /\ LET type == up.sorted[up.idx].type
           observations == Observation(outcome)
           observed == Observe(providerHealth, type, observations, now)
           u == [up EXCEPT !.outcomes = Append(@, outcome),
                           !.obs = @ \o [j \in 1 .. Len(observations) |->
                                           [type |-> type, success |-> observations[j]]]]
       IN  /\ outcome # "success" => MayFail(providerHealth, type)
           /\ IF ReturnsResult(outcome)
              THEN /\ providerHealth' = observed
                   /\ up' = [u EXCEPT !.pc = "done", !.result = Succeeded(type)]
              ELSE Continue(u, up.idx + 1, observed)
    /\ UNCHANGED <<now, streak, lastRead>>

\* the adapter call of an uploadFile called by itself ends
AdapterReturns(outcome) ==
    /\ AdapterEnds(outcome)
    /\ UNCHANGED hashVars
    /\ UNCHANGED routerVars
    /\ UNCHANGED adapterVars
    /\ UNCHANGED apiVars

\* the adapter call in flight never responds: the fetch of the adapter has
\* no abort signal and the await in uploadFile no timer, so the promise stays
\* pending and the call stays at its await
AdapterNeverResponds ==
    /\ up.pc = "calling"
    /\ up' = [up EXCEPT !.pc = "blocked"]
    /\ UNCHANGED <<now, providerHealth, streak, lastRead>>
    /\ UNCHANGED hashVars
    /\ UNCHANGED routerVars
    /\ UNCHANGED adapterVars
    /\ UNCHANGED apiVars

-----------------------------------------------------------------------------
(* downloadFile and deleteFile, storage-proxy.ts:188-276 *)

\* the adapter a case of the switch calls: downloadFromX or deleteFromX
AdapterOf(op, type) == [op |-> op, type |-> type]

\* `let githubTotalSize = 0` is commented out (storage-proxy.ts:73), and no
\* other declaration of the name exists
GithubTotalSizeDeclared == FALSE

\* the configs the callers pass: the one of getStorageConfigs for the type
SingleConfigs == {Config(type, DefaultPriority(type)) : type \in Providers}

\* downloadFile(config, storageId) is called and awaits the adapter of the
\* case of config.type
DownloadFile(config) ==
    /\ single.pc # "calling"
    /\ single' = [NoSingle EXCEPT !.op = "download", !.pc = "calling",
                                  !.type = config.type,
                                  !.invoked = <<AdapterOf("download", config.type)>>]
    /\ UNCHANGED gh
    /\ UNCHANGED hashVars
    /\ UNCHANGED routerVars
    /\ UNCHANGED gatewayVars
    /\ UNCHANGED apiVars

\* deleteFile(config, storageId) is called and awaits the adapter of the case
\* of config.type
DeleteFileRuns(config) ==
    /\ single.pc # "calling"
    /\ single' = [NoSingle EXCEPT !.op = "delete", !.pc = "calling",
                                  !.type = config.type,
                                  !.invoked = <<AdapterOf("delete", config.type)>>]

\* deleteFile called by itself
DeleteFile(config) ==
    /\ DeleteFileRuns(config)
    /\ UNCHANGED gh
    /\ UNCHANGED hashVars
    /\ UNCHANGED routerVars
    /\ UNCHANGED gatewayVars
    /\ UNCHANGED apiVars

\* a downloadFile that tries the github adapter after a failure
DownloadEnds_Fallback(s, outcome) ==
    IF outcome # "success" /\ Len(s.invoked) = 1
    THEN [s EXCEPT !.invoked = Append(@, AdapterOf("download", "github"))]
    ELSE [s EXCEPT !.pc = "done", !.outcome = outcome,
                   !.result = [success |-> (outcome = "success")]]

\* downloadFile after its adapter ended: it returns what the adapter
\* returned, or success = false from the catch
DownloadEnds(s, outcome) ==
    [s EXCEPT !.pc = "done", !.outcome = outcome,
              !.result = [success |-> (outcome = "success")]]

\* deleteFile after its adapter ended: the github case goes on to assign
\* githubTotalSize after a successful delete, which throws a ReferenceError
\* when the name is not declared; the catch returns success = false
DeleteEnds(s, outcome) ==
    LET threw == \/ outcome = "throws"
                 \/ /\ outcome = "success"
                    /\ s.type = "github"
                    /\ ~GithubTotalSizeDeclared
    IN  [s EXCEPT !.pc = "done", !.outcome = outcome,
                  !.result = [success |-> (outcome = "success" /\ ~threw)]]

\* the adapter awaited by downloadFile ends
DownloadAdapterReturns(outcome) ==
    /\ single.pc = "calling"
    /\ single.op = "download"
    /\ single' = DownloadEnds(single, outcome)
    /\ UNCHANGED gh
    /\ UNCHANGED hashVars
    /\ UNCHANGED routerVars
    /\ UNCHANGED gatewayVars
    /\ UNCHANGED apiVars

\* the adapter awaited by deleteFile ends
DeleteAdapterEnds(outcome) ==
    /\ single.pc = "calling"
    /\ single.op = "delete"
    /\ single' = DeleteEnds(single, outcome)

\* the adapter of a deleteFile called by itself ends
DeleteAdapterReturns(outcome) ==
    /\ DeleteAdapterEnds(outcome)
    /\ UNCHANGED gh
    /\ UNCHANGED hashVars
    /\ UNCHANGED routerVars
    /\ UNCHANGED gatewayVars
    /\ UNCHANGED apiVars

-----------------------------------------------------------------------------
(* uploadToGitHub, downloadFromGitHub, deleteFromGitHub,
   storage-github.ts:1-139. A string is the sequence of its parts: the
   characters of a key, the words of a repository name. *)

\* GITHUB_MAX_SIZE / 1024: `repoData.size * 1024 < GITHUB_MAX_SIZE` compares
\* a size in KiB with 4 * 1024 * 1024 KiB
GithubMaxSizeKiB == 4 * 1024 * 1024

\* the last i of `for (let i = 1; i <= 100; i++)`
LastProbe == 100

\* `nightmare-library-storage-${i}`
RepoName(i) == <<"nightmare-library-storage", "-", ToString(i)>>

\* config.githubRepo: not set, the default of getStorageConfigs, a
\* repository of the owner's choice
GithubRepos == { <<>>, <<"nightmare-library-storage">>, <<"my", "-", "books">> }

\* the fileId of the callers, `${bookId}.${fileType}` with bookId
\* `book-${Date.now()}-${random base 36}`
FileIds == { <<"book", "-", "17", "-", "k3", ".", "pdf">>,
             <<"book", "-", "18", "-", "0z", ".", "epub">> }

\* response.ok
ResponseOk(status) == status >= 200 /\ status <= 299

\* the statuses GitHub answers the first PUT of the contents API with
WriteStatuses == {201, 403, 404, 422, 500}

\* the statuses GitHub answers a PUT of the rotation with
RetryStatuses == {201, 422}

\* the statuses GitHub answers GET /repos/{owner}/{repo} with
CheckStatuses == {200, 403, 404}

\* the sizes GitHub reports, in KiB: just below the ceiling and at it
RepoSizes == {GithubMaxSizeKiB - 1, GithubMaxSizeKiB}

\* response.status === 404 || response.status === 403 || response.status === 422
Rotates(status) == status \in {404, 403, 422}

\* a ceiling test that lets a repository at the ceiling pass
BelowCeiling_Inclusive(size) == size <= GithubMaxSizeKiB

\* repoData.size * 1024 < GITHUB_MAX_SIZE
BelowCeiling(size) == size < GithubMaxSizeKiB

\* a storage id built from the repository of the config
StorageIdOf_ConfigRepo(g) ==
    (IF g.configRepo = <<>> THEN RepoName(1) ELSE g.configRepo) \o <<":">> \o g.fileId

\* `${repo}:${fileId}`
StorageIdOf(g) == g.repo \o <<":">> \o g.fileId

\* the end of uploadToGitHub: the result after the last response
Finish(g) ==
    [g EXCEPT !.pc = "done",
              !.result = IF ResponseOk(g.status)
                         THEN [success |-> TRUE, storageId |-> StorageIdOf(g)]
                         ELSE [success |-> FALSE, storageId |-> <<>>]]

\* uploadToRepo(repo) has been answered with status, the write having been
\* made on the given basis
Written(g, repo, status, basis, check, size) ==
    [g EXCEPT !.repo = repo, !.status = status,
              !.lastWrite = [repo |-> repo, basis |-> basis, check |-> check, size |-> size],
              !.accepted = IF ResponseOk(status) THEN Append(@, repo) ELSE @]

\* uploadToGitHub(config, fileId) is called and awaits the first write
UploadToGitHub(configRepo, fileId) ==
    /\ gh.pc \in {"idle", "done"}
    /\ gh' = [NoGitHub EXCEPT !.pc = "first", !.fileId = fileId,
                              !.configRepo = configRepo,
                              !.repo = IF configRepo = <<>> THEN RepoName(1) ELSE configRepo]
    /\ UNCHANGED single
    /\ UNCHANGED hashVars
    /\ UNCHANGED routerVars
    /\ UNCHANGED gatewayVars
    /\ UNCHANGED apiVars

\* the first write is answered: the rotation starts on 404, 403 and 422
FirstWriteResponds(status) ==
    /\ gh.pc = "first"
    /\ LET g == Written(gh, gh.repo, status, "first", 0, 0)
       IN  gh' = IF Rotates(status) THEN [g EXCEPT !.pc = "probing", !.i = 1]
                 ELSE Finish(g)
    /\ UNCHANGED single
    /\ UNCHANGED hashVars
    /\ UNCHANGED routerVars
    /\ UNCHANGED gatewayVars
    /\ UNCHANGED apiVars

\* one iteration of the rotation loop, i = g.i: the repository is looked up
\* (check, size), created when it does not exist (createOk) and written to
\* (write) when it was just created or its size is below the ceiling
ProbeStep(g, check, size, createOk, write) ==
    LET nextRepo == RepoName(g.i)
        p == [g EXCEPT !.probed = Append(@, g.i)]
        created == check = 404 /\ createOk
        existing == check # 404 /\ ResponseOk(check) /\ BelowCeiling(size)
        after == IF created THEN Written(p, nextRepo, write, "created", check, size)
                 ELSE IF existing THEN Written(p, nextRepo, write, "existing", check, size)
                 ELSE p
        breaks == created \/ (existing /\ ResponseOk(write))
    IN  IF breaks \/ g.i + 1 > LastProbe THEN Finish(after)
        ELSE [after EXCEPT !.i = g.i + 1]

\* the loop runs one iteration
Probe(check, size, createOk, write) ==
    /\ gh.pc = "probing"
    /\ gh' = ProbeStep(gh, check, size, createOk, write)
    /\ UNCHANGED single
    /\ UNCHANGED hashVars
    /\ UNCHANGED routerVars
    /\ UNCHANGED gatewayVars
    /\ UNCHANGED apiVars

\* storageId.includes(sep)
Includes(str, sep) == \E i \in 1 .. Len(str) : str[i] = sep

RECURSIVE Split(_, _)
\* storageId.split(sep)
Split(str, sep) ==
    IF ~Includes(str, sep) THEN <<str>>
    ELSE LET at == CHOOSE i \in 1 .. Len(str) :
                       str[i] = sep /\ \A j \in 1 .. (i - 1) : str[j] # sep
         IN  <<SubSeq(str, 1, at - 1)>> \o Split(SubSeq(str, at + 1, Len(str)), sep)

\* const [repo, fileId] = storageId.includes(':') ? storageId.split(':')
\*                                                : [config.githubRepo, storageId]
ParseStorageId(storageId, configRepo) ==
    IF Includes(storageId, ":")
    THEN LET parts == Split(storageId, ":")
         IN  [repo |-> parts[1], fileId |-> parts[2]]
    ELSE [repo |-> configRepo, fileId |-> storageId]

\* downloadFromGitHub(config, storageId) with the storage id of the upload:
\* the repository and the file of the URL it fetches
DownloadFromGitHub(configRepo) ==
    /\ gh.pc = "done"
    /\ gh.result.success
    /\ LET parsed == ParseStorageId(gh.result.storageId, configRepo)
       IN  gh' = [gh EXCEPT !.read = [op |-> "download", repo |-> parsed.repo,
                                      fileId |-> parsed.fileId]]
    /\ UNCHANGED single
    /\ UNCHANGED hashVars
    /\ UNCHANGED routerVars
    /\ UNCHANGED gatewayVars
    /\ UNCHANGED apiVars

\* deleteFromGitHub(config, storageId) with the storage id of the upload:
\* the repository and the file of the URLs of its GET and its DELETE
DeleteFromGitHub(configRepo) ==
    /\ gh.pc = "done"
    /\ gh.result.success
    /\ LET parsed == ParseStorageId(gh.result.storageId, configRepo)
       IN  gh' = [gh EXCEPT !.read = [op |-> "delete", repo |-> parsed.repo,
                                      fileId |-> parsed.fileId]]
    /\ UNCHANGED single
    /\ UNCHANGED hashVars
    /\ UNCHANGED routerVars
    /\ UNCHANGED gatewayVars
    /\ UNCHANGED apiVars

-----------------------------------------------------------------------------
(* Two uploadFile calls in one process, storage-proxy.ts:76-183: a call runs
   without interruption from one await to the next, so every step of a call
   from the return of an adapter to the invocation of the next one is one
   action, and the steps of the two calls interleave. `trace` follows, for
   each provider, the observations in the order they were made. *)

\* the candidate lists of the concurrent callers
ConcurrentLists == {
    << Config("dropbox", 2), Config("github", 10) >>,
    << Config("dropbox", 2) >>,
    << Config("github", 10) >> }

\* the other caller
Other(c) == CHOOSE o \in Callers : o # c

\* the failures of a type since its last success or passive recovery, and
\* the instant of its last observation, after one more observation
TraceObserve(tr, type, observations, t) ==
    IF observations = <<>> THEN tr
    ELSE LET n == IF type \in DOMAIN tr THEN tr[type].n ELSE 0
         IN  MapSet(tr, type, [n |-> IF observations[1] THEN 0 ELSE n + 1, last |-> t])

\* the same after a read of each of the types at time t: a type whose last
\* observation is more than the recovery window old recovers
TraceRead(tr, types, t) ==
    [p \in DOMAIN tr |->
        IF p \in types /\ t - tr[p].last > RecoveryWindow
        THEN [tr[p] EXCEPT !.n = 0] ELSE tr[p]]

\* an updateProviderHealth that works on the record as it was when the
\* adapter was invoked
ObservedMap_AtAttempt(u) ==
    [p \in DOMAIN providerHealth |->
        IF p = u.sorted[u.idx].type
        THEN [providerHealth[p] EXCEPT !.errorCount = u.seen]
        ELSE providerHealth[p]]

\* updateProviderHealth is synchronous: providerHealth.get(type) reads the
\* record as it is when the observation is made
ObservedMap(u) == providerHealth

\* the loop of caller c goes on from position i with the map h and the
\* trace tr: it runs to the next adapter call or to the end of the list
CallContinue(c, u, i, h, tr) ==
    LET k == NextAttempt(u.sorted, i, h, now)
        types == TypesRead(u.sorted, i, k)
        read == ReadEach(h, types, now)
    IN  /\ providerHealth' = read
        /\ trace' = TraceRead(tr, types, now)
        /\ calls' = [calls EXCEPT ![c] =
                IF k > Len(u.sorted)
                THEN [u EXCEPT !.pc = "done", !.idx = k]
                ELSE [u EXCEPT !.pc = "calling", !.idx = k,
                               !.seen = CountIn(read, u.sorted[k].type)]]

\* caller c calls uploadFile(configs, ...)
CallUploadFile(c, configs) ==
    /\ calls[c].pc # "calling"
    /\ LET tied == TiedTypes(configs)
           read == ReadEach(providerHealth, tied, now)
           sorted == SortConfigs(configs, Len(configs), read, now)
       IN  CallContinue(c, [NoCall EXCEPT !.sorted = sorted], 1, read,
                        TraceRead(trace, tied, now))
    /\ UNCHANGED <<sel, ep, objects, books, attempts, sessions, login>>
    /\ UNCHANGED <<now, streak, lastRead, up>>
    /\ UNCHANGED hashVars
    /\ UNCHANGED routerVars
    /\ UNCHANGED adapterVars

\* the adapter awaited by caller c ends
CallAdapterReturns(c, outcome) ==
    /\ calls[c].pc = "calling"
    /\ LET type == calls[c].sorted[calls[c].idx].type
           other == calls[Other(c)]
           observations == Observation(outcome)
           observed == Observe(ObservedMap(calls[c]), type, observations, now)
           traced == TraceObserve(trace, type, observations, now)
           u == [calls[c] EXCEPT
                    !.overlapped = @ \/ (/\ outcome # "success"
                                         /\ other.pc = "calling"
                                         /\ other.sorted[other.idx].type = type)]
       IN  /\ outcome # "success" => MayFail(providerHealth, type)
           /\ IF ReturnsResult(outcome)
              THEN /\ providerHealth' = observed
                   /\ trace' = traced
                   /\ calls' = [calls EXCEPT ![c] = [u EXCEPT !.pc = "done"]]
              ELSE CallContinue(c, u, calls[c].idx + 1, observed, traced)
    /\ UNCHANGED <<sel, ep, objects, books, attempts, sessions, login>>
    /\ UNCHANGED <<now, streak, lastRead, up>>
    /\ UNCHANGED hashVars
    /\ UNCHANGED routerVars
    /\ UNCHANGED adapterVars

-----------------------------------------------------------------------------
(* The upload-book endpoint, functions/api/books/progress.ts:130-311, and
   the delete-book endpoint, part_007:31-118. One request is handled at a
   time. *)

\* the requests the endpoints are followed through
MaxRequests == 2

\* the book ids of the requests, as indices of RouterKeys: "a" (DB_8) and
\* the id of code unit 3 (DB_4)
BookKeys == {2, 4}

\* `book-${Date.now()}-${Math.random().toString(36).slice(2, 8)}` of a key
BookName(key) == <<"book", "-", ToString(key)>>

\* `${bookId}.${fileType}`
FileIdOf(key) == BookName(key) \o <<".", IF key = 2 THEN "pdf" ELSE "epub">>

\* the D1 database bound as env.DB: none (the Env of the handler declares
\* DB_1 .. DB_10 only), the database that is also bound as DB_8, a database
\* of its own
Unbound == 0

DbBindings == {Unbound, 8, NumShards + 1}

\* the environments of the endpoints, as the types whose variables are set:
\* none, each one alone, dropbox with github
StorageEnvs ==
    {{}} \cup {{StorageOrder[i]} : i \in 1 .. Len(StorageOrder)}
         \cup {{"dropbox", "github"}}

\* the id the provider gives the file it stored (result.id, fileid, h, ...)
ProviderId(fileId) == <<"id", "_">> \o fileId

\* the storageId and url of the successful result of each upload adapter,
\* storage-proxy.ts:280-1108 and storage-github.ts:71-77, with the defaults
\* of the optional paths
AdapterResult(type, fileId, imported) ==
    CASE type = "gdrive" ->
            [storageId |-> ProviderId(fileId),
             url |-> <<"https://", "drive.google.com", "/file/d/">>
                        \o ProviderId(fileId) \o <<"/view">>]
      [] type = "dropbox" ->
            [storageId |-> <<"/", "books", "/">> \o fileId,
             url |-> <<"id", ":">> \o ProviderId(fileId)]
      [] type = "onedrive" ->
            [storageId |-> ProviderId(fileId),
             url |-> <<"https://", "onedrive.live.com", "/">> \o ProviderId(fileId)]
      [] type = "pcloud" ->
            [storageId |-> ProviderId(fileId),
             url |-> <<"https://", "my.pcloud.com", "/#page=filemanager&folder=", "0">>]
      [] type = "box" ->
            [storageId |-> ProviderId(fileId),
             url |-> <<"https://", "app.box.com", "/file/">> \o ProviderId(fileId)]
      [] type = "yandex" ->
            [storageId |-> <<"NightmareLibrary", "/">> \o fileId,
             url |-> <<"https://", "disk.yandex.com", "/client/disk/", "NightmareLibrary">>]
      [] type = "koofr" ->
            [storageId |-> <<"primary", ":", "/", "NightmareLibrary", "/">> \o fileId,
             url |-> <<"https://", "app.koofr.net", "/app/">>]
      [] type = "b2" ->
            [storageId |-> ProviderId(fileId),
             url |-> <<"https://", "f000.backblazeb2.com", "/file/", "bucket", "/">>
                        \o fileId]
      [] type = "mega" ->
            [storageId |-> ProviderId(fileId),
             url |-> <<"https://", "mega.nz", "/file/">> \o ProviderId(fileId)]
      [] type = "github" /\ imported ->
            [storageId |-> <<"nightmare-library-storage", ":">> \o fileId,
             url |-> <<"https://", "github.com", "/", "owner", "/",
                       "nightmare-library-storage", "/blob/main/books/">> \o fileId]
      [] OTHER ->
            [storageId |-> <<"nightmare-library-storage", "/", "books", "/">> \o fileId,
             url |-> <<"https://", "raw.githubusercontent.com", "/", "owner", "/",
                       "nightmare-library-storage", "/main/", "books", "/">> \o fileId]

\* what uploadFile returns after the adapter of `type` succeeded:
\* result.provider = config.type is added
UploadResultOf(type, fileId, imported) ==
    LET r == AdapterResult(type, fileId, imported)
    IN  [success |-> TRUE, provider |-> type, storageId |-> r.storageId, url |-> r.url]

\* const storageType = uploadResult.storageId?.includes('/') ? 'github' :
\*     uploadResult.url?.includes('drive.google.com') ? 'gdrive' :
\*     uploadResult.url?.includes('dropbox') ? 'dropbox' : 'mega'
StorageTypeOf(result) ==
    IF Includes(result.storageId, "/") THEN "github"
    ELSE IF Includes(result.url, "drive.google.com") THEN "gdrive"
    ELSE IF Includes(result.url, "dropbox") THEN "dropbox"
    ELSE "mega"

\* the object a successful upload adapter leaves at its provider
ObjectOf(type, key, imported) ==
    [provider |-> type, key |-> key,
     storageId |-> AdapterResult(type, FileIdOf(key), imported).storageId]

\* a books row: the database it is in, its id, storage_provider, storage_id
Row(db, key, provider, storageId) ==
    [db |-> db, id |-> key, storage_provider |-> provider, storage_id |-> storageId]

\* the ids in use: Date.now() and Math.random() give a new request a new id
UsedKeys == {b.id : b \in books} \cup {o.key : o \in objects}

\* the handler has answered
Answer(e, status, message) ==
    [e EXCEPT !.pc = "done", !.status = status, !.message = message]

\* a request may start
EndpointFree ==
    /\ ep.pc \in {"idle", "done"}
    /\ ep.n < MaxRequests
    /\ up.pc # "calling"
    /\ single.pc # "calling"

\* the request that starts: the bindings and the build stay as they are
NewRequest(op, key, env) ==
    [NoRequest EXCEPT !.op = op, !.key = key, !.env = env, !.db = ep.db,
                      !.imported = ep.imported, !.n = ep.n + 1]

\* POST upload-book: the form is validated, the id is generated, and with
\* at least one provider configured uploadFile is called and awaited
UploadBook(valid, key, env) ==
    /\ EndpointFree
    /\ key \notin UsedKeys
    /\ LET e == NewRequest("upload", key, env)
           storageConfigs == getStorageConfigs(env)
       IN  IF ~valid
           THEN /\ ep' = Answer(e, 400, "Invalid form")
                /\ UNCHANGED gatewayVars
           ELSE IF Len(storageConfigs) = 0
           THEN /\ ep' = Answer(e, 500, "No storage providers configured")
                /\ UNCHANGED gatewayVars
           ELSE /\ ep' = [e EXCEPT !.pc = "uploading"]
                /\ UploadFileRuns(storageConfigs)
    /\ UNCHANGED <<sel, objects, books, attempts, sessions, login, calls, trace>>
    /\ UNCHANGED hashVars
    /\ UNCHANGED routerVars
    /\ UNCHANGED adapterVars

\* the upload adapter awaited by the uploadFile of the request ends: when it
\* succeeded the provider holds the object
UploadAdapterReturns(outcome) ==
    /\ ep.pc = "uploading"
    /\ AdapterEnds(outcome)
    /\ objects' = IF outcome = "success"
                  THEN objects \cup {ObjectOf(up.sorted[up.idx].type, ep.key, ep.imported)}
                  ELSE objects
    /\ UNCHANGED <<sel, ep, books, attempts, sessions, login, calls, trace>>
    /\ UNCHANGED hashVars
    /\ UNCHANGED routerVars
    /\ UNCHANGED adapterVars

\* the database the INSERT INTO books is sent to: env.DB; the `router` the
\* handler created is not used
InsertTarget(e) == e.db

\* uploadFile has returned: on failure the handler answers 500; on success
\* it derives storage_provider, sends the INSERT to env.DB (a TypeError when
\* env.DB is undefined, an error when the database rejects it) and answers
UploadBookContinues(dbOk) ==
    /\ ep.pc = "uploading"
    /\ up.pc = "done"
    /\ IF ~up.result.success
       THEN /\ ep' = Answer(ep, 500, "All storage providers failed")
            /\ UNCHANGED <<books, objects>>
       ELSE LET uploadResult == UploadResultOf(up.result.provider, FileIdOf(ep.key),
                                                ep.imported)
                storageType == StorageTypeOf(uploadResult)
                e == [ep EXCEPT !.uploadResult = uploadResult,
                                !.storageType = storageType, !.dbOk = dbOk]
                target == InsertTarget(e)
            IN  IF target = Unbound \/ ~dbOk
                THEN /\ ep' = Answer(e, 500, "Upload failed")
                     /\ UNCHANGED <<books, objects>>
                ELSE /\ ep' = Answer(e, 200, "success")
                     /\ books' = books \cup {Row(target, ep.key, storageType,
                                                  uploadResult.storageId)}
                     /\ UNCHANGED objects
    /\ UNCHANGED <<sel, attempts, sessions, login, calls, trace>>
    /\ UNCHANGED hashVars
    /\ UNCHANGED routerVars
    /\ UNCHANGED gatewayVars
    /\ UNCHANGED adapterVars

\* the rows `SELECT ... FROM books WHERE id = ?` finds in the database of
\* router.queryForBook(id)
RowsOf(key) ==
    {b \in books : b.db = RouterBinding(RouterKeys[key]) /\ b.id = key}

\* the first config of getStorageConfigs(env) with config.type = provider
ConfigsOfType(env, provider) ==
    SelectSeq(getStorageConfigs(env), LAMBDA c : c.type = provider)

\* DELETE delete-book: the row is read through the router; without a row
\* the answer is 404, without a config of its storage_provider 400;
\* otherwise deleteFile is called and awaited
DeleteBook(key, env, dbOk) ==
    /\ EndpointFree
    /\ LET e == [NewRequest("delete", key, env) EXCEPT !.dbOk = dbOk]
       IN  IF ~dbOk
           THEN /\ ep' = Answer(e, 500, "Delete failed")
                /\ UNCHANGED single
           ELSE IF RowsOf(key) = {}
           THEN /\ ep' = Answer(e, 404, "Book not found")
                /\ UNCHANGED single
           ELSE LET book == CHOOSE b \in RowsOf(key) : TRUE
                    found == ConfigsOfType(env, book.storage_provider)
                IN  IF found = <<>>
                    THEN /\ ep' = Answer([e EXCEPT !.book = book], 400,
                                         "Storage provider not found")
                         /\ UNCHANGED single
                    ELSE /\ ep' = [e EXCEPT !.book = book, !.pc = "deleting"]
                         /\ DeleteFileRuns(found[1])
    /\ UNCHANGED <<sel, objects, books, attempts, sessions, login, calls, trace>>
    /\ UNCHANGED gh
    /\ UNCHANGED hashVars
    /\ UNCHANGED routerVars
    /\ UNCHANGED gatewayVars

\* the objects the delete adapter of `type` is asked to delete
Addressed(type, storageId) ==
    {o \in objects : o.provider = type /\ o.storageId = storageId}

\* the delete adapter awaited by the deleteFile of the request ends: it
\* succeeds only on an object the provider holds, which is then gone
DeleteBookAdapterReturns(outcome) ==
    /\ ep.pc = "deleting"
    /\ outcome = "success" => Addressed(single.type, ep.book.storage_id) # {}
    /\ DeleteAdapterEnds(outcome)
    /\ objects' = IF outcome = "success"
                  THEN objects \ Addressed(single.type, ep.book.storage_id)
                  ELSE objects
    /\ UNCHANGED <<sel, ep, books, attempts, sessions, login, calls, trace>>
    /\ UNCHANGED gh
    /\ UNCHANGED hashVars
    /\ UNCHANGED routerVars
    /\ UNCHANGED gatewayVars

\* deleteFile has returned and its result is not looked at: the rows of the
\* book are deleted through the router and the handler answers success, or
\* 'Delete failed' when the database throws
DeleteBookContinues(dbOk) ==
    /\ ep.pc = "deleting"
    /\ single.pc = "done"
    /\ IF ~dbOk
       THEN /\ ep' = Answer([ep EXCEPT !.dbOk = dbOk], 500, "Delete failed")
            /\ UNCHANGED books
       ELSE /\ ep' = Answer(ep, 200, "success")
            /\ books' = books \ RowsOf(ep.key)
    /\ UNCHANGED <<sel, objects, attempts, sessions, login, calls, trace>>
    /\ UNCHANGED hashVars
    /\ UNCHANGED routerVars
    /\ UNCHANGED gatewayVars
    /\ UNCHANGED adapterVars

-----------------------------------------------------------------------------
(* POST /api/auth, functions/api/shelves/add-book.ts:120-264. The requests
   of one client IP, handled one at a time. *)

MAX_ATTEMPTS == 5

\* 15 * 60 * 1000
LOCKOUT_DURATION == 15 * 60 * 1000

\* 5 * 60 * 1000
ATTEMPT_WINDOW == 5 * 60 * 1000

\* the `password` of the request body: absent or empty, env.PASSWORD, another
\* string of 1 to 128 characters, a string of more than 128 characters
Passwords == {"empty", "correct", "wrong", "toolong"}

\* the instants of the login requests: the start, one millisecond past the
\* attempt window, the end of a lockout that began at the start, and one
\* attempt window past it
LoginInstants == {0, ATTEMPT_WINDOW + 1, LOCKOUT_DURATION,
                  LOCKOUT_DURATION + ATTEMPT_WINDOW + 1}

\* the failed attempts of one window the model follows
MaxCount == MAX_ATTEMPTS + 1

\* attemptData ? JSON.parse(attemptData) : { count: 0, firstAttempt: Date.now() }
ReadAttempts(stored, t) ==
    IF stored.stored THEN stored
    ELSE [stored |-> TRUE, count |-> 0, firstAttempt |-> t,
          locked |-> FALSE, lockedUntil |-> 0]

\* attempts.lockedUntil && Date.now() < attempts.lockedUntil
IsLocked(a, t) == a.locked /\ t < a.lockedUntil

\* if (Date.now() - attempts.firstAttempt > ATTEMPT_WINDOW) attempts = { count: 0, ... }
WindowReset(a, t) ==
    IF t - a.firstAttempt > ATTEMPT_WINDOW
    THEN [stored |-> TRUE, count |-> 0, firstAttempt |-> t,
          locked |-> FALSE, lockedUntil |-> 0]
    ELSE a

\* attempts.count++ of the length check: no lockout test follows it
CountTooLong(a) == [a EXCEPT !.count = @ + 1]

\* attempts.count++ of the password comparison, then
\* if (attempts.count >= MAX_ATTEMPTS) attempts.lockedUntil = Date.now() + LOCKOUT_DURATION
CountWrong(a, t) ==
    LET counted == [a EXCEPT !.count = @ + 1]
    IN  IF counted.count >= MAX_ATTEMPTS
        THEN [counted EXCEPT !.locked = TRUE, !.lockedUntil = t + LOCKOUT_DURATION]
        ELSE counted

\* the status the handler answers with
LoginStatus(a, password, t) ==
    IF IsLocked(a, t) THEN 429
    ELSE CASE password = "empty" -> 400
           [] password = "toolong" -> 401
           [] password = "wrong" -> 401
           [] OTHER -> 200

\* what the handler leaves in KV_RATE_LIMIT under the key of the client
AttemptsAfter(stored, password, t) ==
    LET a == ReadAttempts(stored, t)
        w == WindowReset(a, t)
    IN  IF IsLocked(a, t) THEN stored
        ELSE CASE password = "empty" -> stored
               [] password = "toolong" -> CountTooLong(w)
               [] password = "wrong" -> CountWrong(w, t)
               [] OTHER -> NoAttempts

\* POST /api/auth with the given password is handled
LoginRequest(password) ==
    LET a == ReadAttempts(attempts, now)
        status == LoginStatus(a, password, now)
        failed == CASE status = 401 -> login.failed + 1
                    [] status = 200 -> 0
                    [] OTHER -> login.failed
    IN  /\ status = 401 => WindowReset(a, now).count < MaxCount
        /\ attempts' = AttemptsAfter(attempts, password, now)
        /\ sessions' = IF status = 200 THEN sessions \cup {now} ELSE sessions
        /\ login' = [status |-> status, password |-> password, at |-> now,
                     session |-> (status = 200),
                     failedBefore |-> login.failed, failed |-> failed,
                     fifthAt |-> IF status = 401 /\ failed = MAX_ATTEMPTS
                                 THEN now ELSE login.fifthAt]
        /\ UNCHANGED <<sel, ep, objects, books, calls, trace>>
        /\ UNCHANGED now
        /\ UNCHANGED <<providerHealth, streak, lastRead, up>>
        /\ UNCHANGED hashVars
        /\ UNCHANGED routerVars
        /\ UNCHANGED adapterVars

-----------------------------------------------------------------------------
(* Specification of the hash function alone *)

InitHash ==
    /\ bookId \in Keys
    /\ hashAcc = NumZero
    /\ hashRet = NoRet
    /\ hashCalled = FALSE
    /\ RouterIdle
    /\ GatewayIdle

HashBookIdCall ==
    /\ ~hashCalled
    /\ hashCalled' = TRUE
    /\ hashAcc' = hashLoop(bookId, Len(bookId))
    /\ hashRet' = hashBookId(bookId)
    /\ UNCHANGED bookId
    /\ UNCHANGED routerVars
    /\ UNCHANGED gatewayVars
    /\ UNCHANGED adapterVars
    /\ UNCHANGED apiVars

NextHash == HashBookIdCall

SpecHash == InitHash /\ [][NextHash]_vars

-----------------------------------------------------------------------------
(* Specification of the shard selection: each selection function of the
   repository is applied to one book id *)

\* the three selection functions are called with bookId
SelectShards ==
    /\ ~sel.called
    /\ sel' = [called |-> TRUE,
               router |-> RouterBinding(bookId),
               shift |-> getDBShift(bookId),
               sum |-> getDB(bookId)]
    /\ UNCHANGED <<ep, objects, books, attempts, sessions, login, calls, trace>>
    /\ UNCHANGED hashVars
    /\ UNCHANGED routerVars
    /\ UNCHANGED gatewayVars
    /\ UNCHANGED adapterVars

NextShards == SelectShards

SpecShards == InitHash /\ [][NextShards]_vars

-----------------------------------------------------------------------------
(* Specification of the router: construction, handles and fan-out *)

HashIdle ==
    /\ bookId = <<>>
    /\ hashAcc = NumZero
    /\ hashRet = NoRet
    /\ hashCalled = FALSE

InitRouter ==
    /\ HashIdle
    /\ RouterIdle
    /\ GatewayIdle

NextRouter ==
    \/ \E databases \in DbLists : NewDatabaseRouter(databases)
    \/ \E env \in Envs : CreateDatabaseRouter(env)
    \/ \E k \in RouterKeyIds : QueryForBook(k)
    \/ \E h \in handles : \E st \in StmtsOf(h.key), ok \in BOOLEAN : HandlePrepare(h, st, ok)
    \/ \E h \in handles : \E st \in StmtsOf(h.key), ok \in BOOLEAN : HandleExecute(h, st, ok)
    \/ \E h \in handles : \E sts \in BatchesOf(h.key), ok \in BOOLEAN : HandleBatch(h, sts, ok)
    \/ \E useMap \in BOOLEAN : QueryAllStart(useMap)
    \/ \E outcome \in Outcomes : QueryAllStep(outcome, MaxFailing)

SpecRouter == InitRouter /\ [][NextRouter]_vars

-----------------------------------------------------------------------------
(* Specification of the fan-out alone: any rows, any failing shards *)

\* the tables the callers' statements can leave: the row of a book is in
\* the database of its id or nowhere, in any order
RowSeqsOf(d) ==
    LET own == {k \in KeyIds : hashBookId(RouterKeys[k]) + 1 = d}
    IN  {rows \in SeqsUpTo(own, Cardinality(own)) :
            \A i, j \in 1 .. Len(rows) : rows[i] = rows[j] => i = j}

\* the databases some book id is routed to
OwnedDBs == {hashBookId(RouterKeys[k]) + 1 : k \in KeyIds}

TableChoices ==
    {[d \in DBs |-> IF d \in OwnedDBs THEN f[d] ELSE <<>>] :
        f \in {g \in [OwnedDBs -> UNION {RowSeqsOf(d) : d \in OwnedDBs}] :
                  \A d \in OwnedDBs : g[d] \in RowSeqsOf(d)}}

InitFanout ==
    /\ HashIdle
    /\ router = EnvDatabases(DBs, 11)
    /\ ctor = [kind |-> "create", arg |-> DBs, threw |-> FALSE]
    /\ sent = {}
    /\ tables \in TableChoices
    /\ handles = {}
    /\ contacted = {}
    /\ qa = NoQuery
    /\ GatewayIdle

NextFanout ==
    \/ \E useMap \in BOOLEAN : QueryAllStart(useMap)
    \/ \E outcome \in Outcomes : QueryAllStep(outcome, NumShards)

SpecFanout == InitFanout /\ [][NextFanout]_vars

-----------------------------------------------------------------------------
(* Specification of the health tracker alone *)

InitHealth ==
    /\ HashIdle
    /\ RouterIdle
    /\ GatewayIdle

\* the types the tracker's functions are called with
HealthTypes == {"dropbox", "github"}

NextHealth ==
    \/ \E t \in Instants : Tick(t)
    \/ \E type \in HealthTypes, success \in BOOLEAN : UpdateProviderHealthCall(type, success)
    \/ \E type \in HealthTypes : IsProviderHealthyCall(type)

SpecHealth == InitHealth /\ [][NextHealth]_vars

-----------------------------------------------------------------------------
(* Specification of the storage gateway: uploads, one call at a time *)

\* the instants of the gateway: the start and one millisecond past the
\* recovery window
UploadInstants == {0, RecoveryWindow + 1}

Init ==
    /\ HashIdle
    /\ RouterIdle
    /\ GatewayIdle

Next ==
    \/ \E t \in UploadInstants : Tick(t)
    \/ \E configs \in ConfigLists : UploadFile(configs)
    \/ \E outcome \in AdapterOutcomes : AdapterReturns(outcome)

Spec == Init /\ [][Next]_vars

-----------------------------------------------------------------------------
(* Specification of the gateway with adapters that may never respond: an
   adapter in flight responds at some time unless it never does, and a call
   that is blocked is followed to the end *)

NextTimeout ==
    \/ \E t \in UploadInstants : Tick(t)
    \/ \E configs \in ConfigLists : up.pc # "blocked" /\ UploadFile(configs)
    \/ \E outcome \in AdapterOutcomes : AdapterReturns(outcome)
    \/ AdapterNeverResponds

SpecTimeout ==
    /\ Init
    /\ [][NextTimeout]_vars
    /\ WF_vars(\E outcome \in AdapterOutcomes : AdapterReturns(outcome))

-----------------------------------------------------------------------------
(* Specification of the single-provider calls: downloads and deletes next
   to the observations the uploads make *)

NextSingle ==
    \/ \E type \in HealthTypes, success \in BOOLEAN : UpdateProviderHealthCall(type, success)
    \/ \E config \in SingleConfigs : DownloadFile(config)
    \/ \E config \in SingleConfigs : DeleteFile(config)
    \/ \E outcome \in AdapterOutcomes : DownloadAdapterReturns(outcome)
    \/ \E outcome \in AdapterOutcomes : DeleteAdapterReturns(outcome)

SpecSingle == Init /\ [][NextSingle]_vars

-----------------------------------------------------------------------------
(* Specification of the GitHub adapter: an upload with its rotation, then
   reads of the storage id it returned *)

NextGitHub ==
    \/ \E configRepo \in GithubRepos, fileId \in FileIds : UploadToGitHub(configRepo, fileId)
    \/ \E status \in WriteStatuses : FirstWriteResponds(status)
    \/ \E check \in CheckStatuses, size \in RepoSizes, createOk \in BOOLEAN,
          write \in RetryStatuses : Probe(check, size, createOk, write)
    \/ \E configRepo \in GithubRepos : DownloadFromGitHub(configRepo)
    \/ \E configRepo \in GithubRepos : DeleteFromGitHub(configRepo)

SpecGitHub == Init /\ [][NextGitHub]_vars

-----------------------------------------------------------------------------
(* Specification of the books endpoints: uploads and deletes of one
   deployment, whose env.DB binding and build are chosen at the start *)

InitBooks ==
    /\ HashIdle
    /\ RouterIdle
    /\ now = 0
    /\ providerHealth = <<>>
    /\ streak = [p \in Providers |-> NoStreak]
    /\ lastRead = NoRead
    /\ up = NoUpload
    /\ single = NoSingle
    /\ gh = NoGitHub
    /\ sel = NoSel
    /\ ep \in {[NoRequest EXCEPT !.db = db, !.imported = imported] :
                  db \in DbBindings, imported \in BOOLEAN}
    /\ objects = {}
    /\ books = {}
    /\ attempts = NoAttempts
    /\ sessions = {}
    /\ login = NoLogin
    /\ calls = [c \in Callers |-> NoCall]
    /\ trace = <<>>

NextBooks ==
    \/ \E valid \in BOOLEAN, key \in BookKeys, env \in StorageEnvs :
          UploadBook(valid, key, env)
    \/ \E outcome \in AdapterOutcomes : UploadAdapterReturns(outcome)
    \/ \E dbOk \in BOOLEAN : UploadBookContinues(dbOk)
    \/ \E key \in BookKeys, env \in StorageEnvs, dbOk \in BOOLEAN :
          DeleteBook(key, env, dbOk)
    \/ \E outcome \in AdapterOutcomes : DeleteBookAdapterReturns(outcome)
    \/ \E dbOk \in BOOLEAN : DeleteBookContinues(dbOk)

SpecBooks == InitBooks /\ [][NextBooks]_vars

-----------------------------------------------------------------------------
(* Specification of two interleaved uploadFile calls *)

NextConcurrent ==
    \/ \E t \in UploadInstants : Tick(t)
    \/ \E c \in Callers, configs \in ConcurrentLists : CallUploadFile(c, configs)
    \/ \E c \in Callers, outcome \in AdapterOutcomes : CallAdapterReturns(c, outcome)

SpecConcurrent == Init /\ [][NextConcurrent]_vars

-----------------------------------------------------------------------------
(* Specification of the login endpoint: the requests of one client IP *)

NextLogin ==
    \/ \E t \in LoginInstants : Tick(t)
    \/ \E password \in Passwords : LoginRequest(password)

SpecLogin == Init /\ [][NextLogin]_vars

-----------------------------------------------------------------------------
(* C1 *)

\* the accumulator of the specification, as an unsigned 32-bit value [hi, lo]:
\* acc * 31 + c modulo 2^32
RefAccStep(u, c) ==
    LET lo == u.lo * 31 + c
        hi == u.hi * 31 + (lo \div Limb)
    IN  [hi |-> hi % Limb, lo |-> lo % Limb]

RECURSIVE RefAcc(_, _)
RefAcc(id, i) ==
    IF i = 0 THEN [hi |-> 0, lo |-> 0] ELSE RefAccStep(RefAcc(id, i - 1), id[i])

\* abs of the signed reading of u, modulo 10 (2^32 % 10 = 6)
RefAbsMod10(u) ==
    LET m == ((u.hi % 10) * 6 + (u.lo % 10)) % 10
    IN  IF u.hi >= HalfLimb THEN (6 - m) % 10 ELSE m

RefShard(id) == RefAbsMod10(RefAcc(id, Len(id)))

\* the signed reading of u as a number
RefSigned(u) == Num(IF u.hi >= HalfLimb THEN u.hi - Limb ELSE u.hi, u.lo)

\* C1: for every key, hashBookId returns abs(acc) mod 10, where acc starts at
\* 0 and becomes (acc * 31 + char_code) wrapped to a signed 32-bit integer
\* for each character; the result is in 0..9 and the empty key maps to 0.
C1_HashIsAbsAccMod10 ==
    hashCalled =>
        /\ hashAcc = RefSigned(RefAcc(bookId, Len(bookId)))
        /\ hashRet = RefShard(bookId)
        /\ hashRet \in 0 .. 9
        /\ (bookId = <<>> => hashRet = 0)

\* a key whose accumulator ends at -2^31 has been hashed
C1_Witness ==
    /\ hashCalled
    /\ bookId = MinInt32Key
    /\ hashAcc = MinInt32
    /\ hashRet = 8

-----------------------------------------------------------------------------
(* C2 *)

\* the database DatabaseRouter.queryForBook(K) is bound to: DB_(hashBookId(K) + 1)
ShardDbOf(k) == hashBookId(RouterKeys[k]) + 1

\* C2: after any sequence of router operations, every handle returned by
\* queryForBook(K) is bound to shard hashBookId(K); every prepare, execute
\* and batch issued through it, succeeding or failing, has contacted that
\* shard's database and no other, so a book's row is in no other database;
\* two handles of the same K are bound to the same shard.
C2_HandleBoundToHashShard ==
    /\ \A h \in handles : h.dbIndex = hashBookId(RouterKeys[h.key])
    /\ \A h1, h2 \in handles : h1.key = h2.key => h1.dbIndex = h2.dbIndex
    /\ \A c \in contacted : c[2] = ShardDbOf(c[1])
    /\ \A d \in DBs : \A j \in 1 .. Len(tables[d]) : d = ShardDbOf(tables[d][j])

\* handles of three books have been used, two of them on the same shard,
\* after a fan-out with a failing shard and a construction that threw
C2_Witness ==
    /\ contacted = {<<1, 1>>, <<2, 8>>, <<3, 8>>}
    /\ tables[8] = <<3, 2>>
    /\ tables[1] = <<>>
    /\ qa.pc = "done"
    /\ qa.failed # {}
    /\ ctor.threw

-----------------------------------------------------------------------------
(* C3 *)

RECURSIVE ConcatShards(_, _, _)
\* the rows of the shards 0 .. n - 1 that are in `keep`, in shard order
ConcatShards(rowsOf, keep, n) ==
    IF n = 0 THEN <<>>
    ELSE ConcatShards(rowsOf, keep, n - 1)
            \o (IF (n - 1) \in keep THEN rowsOf[n - 1] ELSE <<>>)

\* the rows shard i holds
ShardRows == [i \in Shards |-> tables[i + 1]]

\* C3: whichever shards fail, all ten included, queryAll does not throw: it
\* goes through all ten shards and returns the rows of every shard that did
\* not fail; a failing shard contributes no row.
C3_FanOutSurvivesFailures ==
    /\ qa.pc \in {"idle", "loop", "done"}
    /\ qa.pc = "done" =>
          /\ qa.i = 10
          /\ \A i \in Shards \ qa.failed : qa.returned[i] = ShardRows[i]
          /\ qa.results = MapRows(ConcatShards(ShardRows, Shards \ qa.failed, 10), qa.useMap)

\* shards 0 and 3 failed with rows in them, the later shards 7 and 8 were
\* still queried
C3_Witness ==
    /\ qa.pc = "done"
    /\ qa.failed = {0, 3}
    /\ tables[1] = <<1>>
    /\ tables[4] = <<4>>
    /\ tables[8] = <<3, 2>>
    /\ qa.results = <<3, 2, 5>>

\* all ten shards failed and the call returned no rows
C3_WitnessAllFail ==
    /\ qa.pc = "done"
    /\ qa.failed = Shards
    /\ tables[8] = <<2, 3>>
    /\ qa.results = <<>>

-----------------------------------------------------------------------------
(* C4 *)

RECURSIVE SumLen(_, _)
SumLen(rowsOf, n) == IF n = 0 THEN 0 ELSE SumLen(rowsOf, n - 1) + Len(rowsOf[n - 1])

\* C4: when no shard fails, the list queryAll returns is the concatenation
\* of the shards' rows in the order of the shard indices 0..9, each shard's
\* rows in the order it returned them, and has as many rows as the shards
\* returned together.
C4_ConcatInShardOrder ==
    (qa.pc = "done" /\ qa.failed = {}) =>
        /\ qa.results = MapRows(ConcatShards(qa.returned, Shards, 10), qa.useMap)
        /\ Len(qa.results) = SumLen(qa.returned, 10)
        /\ \A i \in Shards : qa.returned[i] = ShardRows[i]

\* four shards with rows, one of them with two rows, none failing
C4_Witness ==
    /\ qa.pc = "done"
    /\ qa.failed = {}
    /\ ~qa.useMap
    /\ qa.results = <<1, 4, 3, 2, 5>>

-----------------------------------------------------------------------------
(* C5 *)

\* C5: createDatabaseRouter throws when a binding DB_1..DB_10 is absent and
\* the constructor throws when its list has not 10 entries; no router is
\* obtained from such a call, so every router, every handle and every
\* statement sent has exactly 10 databases behind it.
C5_TenShardsOrThrow ==
    /\ ctor.kind = "create" => (ctor.threw <=> ctor.arg # DBs)
    /\ ctor.kind = "constructor" => (ctor.threw <=> Len(ctor.arg) # 10)
    /\ router # NoRouter => Len(router) = 10
    /\ \A h \in handles : Len(h.databases) = 10
    /\ sent \subseteq {10}
    /\ qa.pc # "idle" => Len(qa.databases) = 10

\* createDatabaseRouter has thrown for a missing DB_10, no router exists
\* and no statement has been sent
C5_Witness ==
    /\ ctor = [kind |-> "create", arg |-> DBs \ {10}, threw |-> TRUE]
    /\ router = NoRouter
    /\ sent = {}

\* the constructor has thrown for a list of 11 databases
C5_WitnessConstructor ==
    /\ ctor.kind = "constructor"
    /\ Len(ctor.arg) = 11
    /\ ctor.threw

-----------------------------------------------------------------------------
(* C6 *)

\* C6: a provider becomes Unhealthy exactly when its third consecutive failure
\* is observed: a read after 1 or 2 failure observations since the last
\* success returns true, the third failure observation of a run that lies
\* within the recovery window stores healthy = false, and a read after 3 or
\* more failures of such a run returns false.
C6_UnhealthyAtThirdFailure ==
    [][\A p \in Providers :
          /\ IsProviderHealthyCall(p) =>
                /\ streak[p].n \in {1, 2} => lastRead'.result = TRUE
                /\ (streak[p].n >= 3 /\ now - streak[p].first <= RecoveryWindow)
                      => lastRead'.result = FALSE
          /\ UpdateProviderHealthCall(p, FALSE) =>
                /\ streak'[p].n < 3 => providerHealth'[p].healthy
                /\ (streak'[p].n = 3 /\ now - streak'[p].first <= RecoveryWindow)
                      => /\ ~providerHealth'[p].healthy
                         /\ isProviderHealthy(providerHealth, p, now).result
       ]_vars

\* dropbox has been read as unhealthy after exactly three failures in a row
C6_Witness ==
    /\ lastRead = [type |-> "dropbox", result |-> FALSE]
    /\ streak["dropbox"].n = 3
    /\ "dropbox" \in DOMAIN providerHealth
    /\ providerHealth["dropbox"].errorCount = 3
    /\ ~providerHealth["dropbox"].healthy

-----------------------------------------------------------------------------
(* C7 *)

\* C7: one success observation, from any health state and failure count,
\* stores failure count 0 and healthy = true, and the next read of that
\* provider returns true.
C7_SuccessResets ==
    [][\A p \in Providers :
          /\ UpdateProviderHealthCall(p, TRUE) =>
                /\ providerHealth'[p].errorCount = 0
                /\ providerHealth'[p].healthy
          /\ (IsProviderHealthyCall(p) /\ streak[p].seen /\ streak[p].n = 0)
                => lastRead'.result = TRUE
       ]_vars

\* github was unhealthy with four failures, one success was observed and
\* the read after it returned true
C7_Witness ==
    /\ streak["github"].cleared = 4
    /\ streak["github"].n = 0
    /\ streak["github"].last = now
    /\ providerHealth["github"].errorCount = 0
    /\ providerHealth["github"].healthy
    /\ lastRead = [type |-> "github", result |-> TRUE]

-----------------------------------------------------------------------------
(* C8 *)

\* C8: a read of an Unhealthy provider more than 5 minutes after its last
\* observation returns true and stores healthy = true and failure count 0;
\* a read 5 minutes or less after the last observation returns the stored
\* health and changes nothing.
C8_PassiveRecovery ==
    [][\A p \in Providers :
          (IsProviderHealthyCall(p) /\ p \in DOMAIN providerHealth) =>
              /\ (~providerHealth[p].healthy /\ now - streak[p].last > 300000) =>
                    /\ lastRead'.result = TRUE
                    /\ providerHealth'[p].healthy
                    /\ providerHealth'[p].errorCount = 0
              /\ now - streak[p].last <= 300000 =>
                    /\ lastRead'.result = providerHealth[p].healthy
                    /\ providerHealth' = providerHealth
       ]_vars

\* dropbox, unhealthy after three failures at time 0, has been read one
\* millisecond after the window and is stored healthy with count 0
C8_Witness ==
    /\ now = RecoveryWindow + 1
    /\ streak["dropbox"].n = 3
    /\ streak["dropbox"].last = 0
    /\ lastRead = [type |-> "dropbox", result |-> TRUE]
    /\ providerHealth["dropbox"].healthy
    /\ providerHealth["dropbox"].errorCount = 0

\* dropbox, unhealthy, has been read exactly five minutes after its last
\* observation and is still unhealthy
C8_WitnessAtWindow ==
    /\ now = RecoveryWindow
    /\ streak["dropbox"].last = 0
    /\ lastRead = [type |-> "dropbox", result |-> FALSE]
    /\ ~providerHealth["dropbox"].healthy

-----------------------------------------------------------------------------
(* C9 *)

Range(seq) == {seq[i] : i \in 1 .. Len(seq)}

\* C9: as soon as an adapter has returned a successful result the call has
\* returned it, with provider set to that candidate's type, and no adapter of
\* a candidate later in the attempt order has been invoked in the call.
C9_FirstSuccessWins ==
    \A j \in 1 .. Len(up.outcomes) :
        up.outcomes[j] = "success" =>
            /\ up.pc = "done"
            /\ j = Len(up.invoked)
            /\ up.result = [success |-> TRUE, provider |-> up.invoked[j]]
            /\ up.sorted[up.idx].type = up.invoked[j]
            /\ \A m \in (up.idx + 1) .. Len(up.sorted) :
                  up.sorted[m].type \notin Range(up.invoked)

\* three candidates, the first one succeeded, the other two were not invoked
C9_Witness ==
    /\ up.pc = "done"
    /\ Len(up.sorted) = 3
    /\ up.invoked = <<"gdrive">>
    /\ up.outcomes = <<"success">>
    /\ up.result = [success |-> TRUE, provider |-> "gdrive"]

-----------------------------------------------------------------------------
(* C10 *)

\* the record of a type was older than the recovery window at time t
StaleAt(h, type, t) == type \in DOMAIN h /\ t - h[type].lastCheck > RecoveryWindow

\* every attempt of the call that has ended is followed by exactly one
\* observation of its provider: success after a successful result, failure
\* after a failure result and after a throw
OneObservationPerAttempt ==
    /\ Len(up.obs) = Len(up.outcomes)
    /\ \A j \in 1 .. Len(up.obs) :
          up.obs[j] = [type |-> up.invoked[j], success |-> (up.outcomes[j] = "success")]

\* the candidates of the call were all healthy when it was called
AllHealthyBefore ==
    \A i \in 1 .. Len(up.sorted) :
        up.sorted[i].type \in DOMAIN up.before => up.before[up.sorted[i].type].healthy

\* C10 as stated: every failing attempt adds one failure observation and the
\* succeeding one a success observation; when healthy candidates fail and a
\* later one succeeds, the result is attributed to it, the failure count of
\* each failed provider is one higher than before the call, and the
\* succeeding provider has failure count 0 and is Healthy.
C10_CountsOneHigherThanBefore ==
    /\ OneObservationPerAttempt
    /\ (up.pc = "done" /\ up.result.success /\ AllHealthyBefore) =>
          /\ up.result.provider = up.invoked[Len(up.invoked)]
          /\ providerHealth[up.result.provider].errorCount = 0
          /\ providerHealth[up.result.provider].healthy
          /\ \A j \in 1 .. (Len(up.invoked) - 1) :
                providerHealth[up.invoked[j]].errorCount
                    = CountIn(up.before, up.invoked[j]) + 1

\* C10, amended: as above, but the failure count of each failed provider is
\* one higher than the count in effect when its attempt started: the count
\* before the call, or 0 when the provider's record was then older than
\* 5 minutes (passive recovery resets it before the attempt).
C10_CountsOneHigherThanAtAttempt ==
    /\ OneObservationPerAttempt
    /\ (up.pc = "done" /\ up.result.success) =>
          /\ up.result.provider = up.invoked[Len(up.invoked)]
          /\ providerHealth[up.result.provider].errorCount = 0
          /\ providerHealth[up.result.provider].healthy
          /\ \A j \in 1 .. (Len(up.invoked) - 1) :
                providerHealth[up.invoked[j]].errorCount
                    = (IF StaleAt(up.before, up.invoked[j], up.attemptAt[j]) THEN 0
                       ELSE CountIn(up.before, up.invoked[j])) + 1

\* gdrive failed with a fresh count of 1, dropbox threw, github succeeded
C10_Witness ==
    /\ up.pc = "done"
    /\ up.invoked = <<"gdrive", "dropbox", "github">>
    /\ up.outcomes = <<"failure", "throws", "success">>
    /\ up.result = [success |-> TRUE, provider |-> "github"]
    /\ CountIn(up.before, "gdrive") = 1
    /\ CountIn(up.before, "github") = 2
    /\ providerHealth["gdrive"].errorCount = 2
    /\ providerHealth["dropbox"].errorCount = 1
    /\ providerHealth["github"].errorCount = 0
    /\ providerHealth["github"].healthy

\* gdrive failed with a count of 1 older than the window and ends at 1
C10_WitnessStale ==
    /\ up.pc = "done"
    /\ up.result.success
    /\ up.invoked[1] = "gdrive"
    /\ Len(up.invoked) > 1
    /\ StaleAt(up.before, "gdrive", up.attemptAt[1])
    /\ CountIn(up.before, "gdrive") = 1
    /\ providerHealth["gdrive"].errorCount = 1

-----------------------------------------------------------------------------
(* C11 *)

\* the position of the candidate of a type in the sorted list of the call
PosOf(type) == CHOOSE j \in 1 .. Len(up.sorted) : up.sorted[j].type = type

\* the loop passed over position j because its provider read unhealthy and
\* it was not the last candidate
SkippedUnhealthy(j) ==
    /\ j < Len(up.sorted)
    /\ \E n \in 1 .. Len(up.skipped) :
          up.skipped[n].pos = j /\ ~up.skipped[n].healthy

-----------------------------------------------------------------------------
(* C12 *)

\* C12: a call with a non-empty candidate list that has returned 'All storage
\* providers failed' has invoked at least one adapter, whatever the health of
\* the providers was, and every adapter it invoked has ended without success.
C12_AtLeastOneAttempt ==
    (up.pc = "done" /\ up.result = AllFailed /\ up.sorted # <<>>) =>
        /\ Len(up.invoked) >= 1
        /\ Len(up.outcomes) = Len(up.invoked)
        /\ up.outcomes[Len(up.outcomes)] # "success"

\* the three candidates were all unhealthy: gdrive and dropbox were passed
\* over, github, the last one, was attempted and failed
C12_Witness ==
    /\ up.pc = "done"
    /\ up.result = AllFailed
    /\ Len(up.sorted) = 3
    /\ \A i \in 1 .. 3 :
          /\ up.sorted[i].type \in DOMAIN up.before
          /\ ~isProviderHealthy(up.before, up.sorted[i].type, up.calledAt).result
    /\ up.invoked = <<"github">>
    /\ Len(up.skipped) = 2

-----------------------------------------------------------------------------
(* C13 *)

\* the candidate of the call with the given type
ConfigOf(type) == up.sorted[PosOf(type)]

\* isProviderHealthy of the type as the call found it when it started
HealthyAtCall(type) == isProviderHealthy(up.before, type, up.calledAt).result

\* each entry of the sequence is a later entry of StorageOrder than the one
\* before it
InStorageOrder(types) ==
    \A m, n \in 1 .. Len(types) :
        m < n => DefaultPriority(types[m]) < DefaultPriority(types[n])

C13_WitnessStorageOrder ==
    /\ Range(up.sorted) = Range(getStorageConfigs(Providers))
    /\ up.invoked = <<"gdrive", "dropbox", "github">>

-----------------------------------------------------------------------------
(* C14 *)

\* C14: in a call at most one adapter call is in flight (one exactly while
\* the call awaits an adapter, none otherwise), every attempt but the latest
\* has ended, and ended without success, before the next one started, and no
\* candidate is attempted twice.
C14_SequentialNoRepeat ==
    /\ Len(up.invoked) - Len(up.outcomes) = (IF up.pc = "calling" THEN 1 ELSE 0)
    /\ \A m \in 1 .. (Len(up.invoked) - 1) :
          /\ m <= Len(up.outcomes)
          /\ up.outcomes[m] # "success"
          /\ up.attemptAt[m] <= up.attemptAt[m + 1]
    /\ \A m, n \in 1 .. Len(up.invoked) :
          up.invoked[m] = up.invoked[n] => m = n
    /\ Len(up.invoked) <= Len(up.sorted)

\* the third adapter is in flight after the first two have failed
C14_Witness ==
    /\ up.pc = "calling"
    /\ up.invoked = <<"gdrive", "dropbox", "github">>
    /\ up.outcomes = <<"throws", "failure">>

-----------------------------------------------------------------------------
(* C15 *)

\* C15: an adapter call that never responds does not block the call: every
\* uploadFile call that awaits an adapter eventually returns, with a
\* successful result or with 'All storage providers failed'.
C15_EveryCallReturns ==
    (up.pc = "calling") ~> (up.pc = "done")

-----------------------------------------------------------------------------
(* C16 *)

\* C16: a downloadFile call invokes the download adapter of config.type, once,
\* and no other adapter; when the adapter fails or throws the call returns a
\* failure result and has tried no other provider.
C16_DownloadSingleProvider ==
    single.op = "download" =>
        /\ single.invoked = <<AdapterOf("download", single.type)>>
        /\ single.pc \in {"calling", "done"}
        /\ single.pc = "done" =>
              /\ single.result.success = (single.outcome = "success")
              /\ single.outcome \in {"failure", "throws"} => ~single.result.success

\* a download from dropbox whose adapter threw has returned a failure
C16_Witness ==
    /\ single.op = "download"
    /\ single.pc = "done"
    /\ single.type = "dropbox"
    /\ single.outcome = "throws"
    /\ ~single.result.success
    /\ Len(single.invoked) = 1

-----------------------------------------------------------------------------
(* C17 *)

\* C17: for every provider kind a deleteFile call invokes the delete adapter
\* of config.type, once, and returns success = true exactly when the delete
\* of that adapter succeeded.
C17_DeleteReportsAdapter ==
    single.op = "delete" =>
        /\ single.invoked = <<AdapterOf("delete", single.type)>>
        /\ single.pc = "done" =>
              single.result.success = (single.outcome = "success")

-----------------------------------------------------------------------------
(* C18 *)

\* C18: when the adapter of a downloadFile or deleteFile call fails or throws,
\* the call records a failure observation for the provider, as uploadFile
\* does after a failed attempt.
C18_FailuresObserved ==
    [][\A outcome \in {"failure", "throws"} :
          (DownloadAdapterReturns(outcome) \/ DeleteAdapterReturns(outcome)) =>
              providerHealth' = Observe(providerHealth, single.type,
                                        Observation(outcome), now)
      ]_vars

-----------------------------------------------------------------------------
(* C19 *)

-----------------------------------------------------------------------------
(* C20 *)

\* C20: the rotation probes the numbered repositories 1, 2, ... in order and
\* at most 100 of them; a write of the rotation goes to a repository the
\* probe found absent and then created, or to an existing one whose reported
\* size times 1024 is below 4 GiB; when no write was accepted the adapter
\* returns success = false, which uploadFile records as a failed attempt and
\* answers by going on to the next candidate.
C20_RotationBounded ==
    /\ gh.probed = [j \in 1 .. Len(gh.probed) |-> j]
    /\ Len(gh.probed) <= 100
    /\ gh.pc = "probing" => (gh.i \in 1 .. 100 /\ Len(gh.probed) = gh.i - 1)
    /\ gh.lastWrite.basis = "first" => gh.lastWrite.repo \notin {RepoName(j) : j \in 2 .. 100}
    /\ gh.lastWrite.basis = "created" =>
          /\ gh.lastWrite.check = 404
          /\ gh.lastWrite.repo = RepoName(Len(gh.probed))
    /\ gh.lastWrite.basis = "existing" =>
          /\ ResponseOk(gh.lastWrite.check)
          /\ gh.lastWrite.size < 4 * 1024 * 1024
          /\ \E j \in 1 .. Len(gh.probed) : gh.lastWrite.repo = RepoName(j)
    /\ (gh.pc = "done" /\ gh.accepted = <<>>) =>
          /\ ~gh.result.success
          /\ ~ReturnsResult("failure")
          /\ Observation("failure") = <<FALSE>>

\* a hundred repositories were probed, none accepted the write, and the
\* adapter returned a failure
C20_Witness ==
    /\ gh.pc = "done"
    /\ Len(gh.probed) = 100
    /\ gh.lastWrite.basis = "existing"
    /\ gh.accepted = <<>>
    /\ ~gh.result.success

-----------------------------------------------------------------------------
(* C23 *)

\* the candidates of the call are the ones getStorageConfigs builds from an
\* environment that configures GitHub
GithubConfigured ==
    \E env \in SUBSET Providers :
        /\ "github" \in env
        /\ Range(up.sorted) = Range(getStorageConfigs(env))

\* C23: when GitHub is among the configs getStorageConfigs built, it is the
\* last candidate of the attempt order, its adapter is the last one invoked,
\* it is never passed over, and a call that has returned either returned the
\* success of an earlier provider or has invoked the GitHub adapter, whatever
\* the health map says of GitHub.
C23_GithubLastResort ==
    (up.pc # "idle" /\ GithubConfigured) =>
        /\ up.sorted[Len(up.sorted)].type = "github"
        /\ \A m \in 1 .. Len(up.invoked) :
              up.invoked[m] = "github" => m = Len(up.invoked)
        /\ \A j \in 1 .. Len(up.skipped) : up.skipped[j].type # "github"
        /\ up.pc = "done" =>
              \/ up.result.success /\ up.result.provider # "github"
              \/ "github" \in Range(up.invoked)

\* GitHub was unhealthy when the call started, dropbox failed, and the
\* GitHub adapter was invoked at the same instant all the same
C23_Witness ==
    /\ up.pc = "done"
    /\ GithubConfigured
    /\ ~HealthyAtCall("github")
    /\ up.invoked = <<"dropbox", "github">>
    /\ up.attemptAt[2] = up.calledAt
    /\ up.outcomes[1] # "success"

-----------------------------------------------------------------------------
(* C25 *)

\* C25: whenever an attempt of uploadFile records a failure observation more
\* than five minutes after the provider's previous observation, the
\* provider's failure count after the observation is 1 and the provider is
\* stored as healthy.
C25_QuietPeriodRestartsCount ==
    [][\A outcome \in {"failure", "throws"} :
          AdapterReturns(outcome) =>
              LET type == up.sorted[up.idx].type
              IN  (/\ type \in DOMAIN providerHealth
                   /\ now - providerHealth[type].lastCheck > RecoveryWindow) =>
                      /\ providerHealth'[type].errorCount = 1
                      /\ providerHealth'[type].healthy
      ]_vars

-----------------------------------------------------------------------------
(* C26 *)

\* C26: after any sequence of updateProviderHealth and isProviderHealthy
\* calls, every record of the health map has healthy = false if and only if
\* its errorCount is 3 or more.
C26_UnhealthyIffThreeErrors ==
    \A type \in DOMAIN providerHealth :
        (~providerHealth[type].healthy) <=> (providerHealth[type].errorCount >= 3)

\* dropbox is stored unhealthy with three errors, and the record of github,
\* whose three failures are more than five minutes old, has been reset by a
\* read
C26_Witness ==
    /\ DOMAIN providerHealth = {"dropbox", "github"}
    /\ providerHealth["dropbox"].errorCount = 3
    /\ ~providerHealth["dropbox"].healthy
    /\ streak["github"].n = 3
    /\ now - providerHealth["github"].lastCheck > RecoveryWindow
    /\ lastRead = [type |-> "github", result |-> TRUE]
    /\ providerHealth["github"].errorCount = 0
    /\ providerHealth["github"].healthy

-----------------------------------------------------------------------------
(* C27 *)

\* C27: for every book id, the getDB helpers of the catch-all routers select
\* the binding DB_(hashBookId(id) + 1), the database that
\* DatabaseRouter.queryForBook(id) uses.
C27_SameShardEverywhere ==
    sel.called =>
        /\ sel.shift = sel.router
        /\ sel.sum = sel.router

-----------------------------------------------------------------------------
(* C24 *)

\* C24: after five failed login attempts of one client IP, every further
\* login request of that IP, one with the correct password included, is
\* answered 429 and creates no session until fifteen minutes have passed
\* since the fifth failure.
C24_LockedAfterFiveFailures ==
    (/\ login.status # 0
     /\ login.failedBefore >= MAX_ATTEMPTS
     /\ login.at - login.fifthAt < LOCKOUT_DURATION) =>
        /\ login.status = 429
        /\ ~login.session

-----------------------------------------------------------------------------
(* C21 *)

\* C21: after uploadFile has reported a success and the database has
\* accepted what the handler sent it, the row of the book is in the database
\* of shard hashBookId(bookId), where a lookup through
\* router.queryForBook(bookId) finds it.
C21_RowOnHashedShard ==
    (/\ ep.op = "upload"
     /\ ep.pc = "done"
     /\ ep.uploadResult.success
     /\ ep.dbOk) => RowsOf(ep.key) # {}

-----------------------------------------------------------------------------
(* C22 *)

\* C22: the storage_provider of every row is the provider that holds the
\* object of the book, for each of the ten kinds: an upload answered with
\* success has persisted the provider uploadFile reported, and the deleteFile
\* of a delete-book request is called with the config of that provider.
C22_PersistedProviderIsUploader ==
    /\ (ep.op = "upload" /\ ep.status = 200) =>
            ep.storageType = ep.uploadResult.provider
    /\ \A b \in books : \A o \in objects :
            o.key = b.id => b.storage_provider = o.provider
    /\ (ep.op = "delete" /\ ep.pc = "deleting") =>
            \A o \in objects : o.key = ep.key => single.type = o.provider

-----------------------------------------------------------------------------
(* C29 *)

\* C29: when delete-book has answered success, the row of the book is gone
\* from its shard and no provider holds the object the row referred to.
C29_DeleteRemovesRowAndObject ==
    (ep.op = "delete" /\ ep.pc = "done" /\ ep.status = 200) =>
        /\ RowsOf(ep.key) = {}
        /\ \A o \in objects : o.storageId # ep.book.storage_id

-----------------------------------------------------------------------------
(* C30 *)

\* C30: when upload-book has answered with a failure, no provider holds an
\* object of that request.
C30_NoObjectAfterFailedUpload ==
    (ep.op = "upload" /\ ep.pc = "done" /\ ep.status # 200) =>
        \A o \in objects : o.key # ep.key

-----------------------------------------------------------------------------
(* C28 *)

\* C28: while two uploadFile calls interleave at their awaits, no health
\* observation is lost: the failure count of every provider equals the
\* number of failures observed since its last success or passive recovery,
\* counted one by one in the order in which the observations of the two
\* calls were made.
C28_NoObservationLost ==
    /\ DOMAIN providerHealth = DOMAIN trace
    /\ \A type \in DOMAIN providerHealth :
          /\ providerHealth[type].errorCount = trace[type].n
          /\ providerHealth[type].lastCheck = trace[type].last

\* both callers awaited the dropbox adapter at the same time, both attempts
\* failed, and dropbox has the two failures
C28_Witness ==
    /\ \A c \in Callers :
          /\ calls[c].pc = "done"
          /\ calls[c].sorted = << Config("dropbox", 2) >>
          /\ calls[c].seen = 0
    /\ \E c \in Callers : calls[c].overlapped
    /\ "dropbox" \in DOMAIN providerHealth
    /\ providerHealth["dropbox"].errorCount = 2
    /\ trace["dropbox"].n = 2

====
